---- MODULE Spec2Model ----
(***************************************************************************)
(* Model of the icon cache of the launcher: apps::icons::AppIconManager    *)
(* (src/src/apps/icons/mod.rs) driving the background render worker of     *)
(* apps::icons::loader::IconLoader (src/src/apps/icons/loader.rs) over a   *)
(* bounded request channel and an unbounded response channel.              *)
(***************************************************************************)
EXTENDS Integers, Sequences, FiniteSets, TLC

(***************************************************************************)
(* Bounds of the model.                                                    *)
(***************************************************************************)
\* requests one manager may enqueue (caps the counter to_load)
MaxLoad == 3
\* requests one manager may enqueue in the backpressure specification
MaxLoadBP == 18
\* requests one manager may enqueue when it is used again after finish()
MaxLoadReuse == 2
\* requests the manager enqueues before its first tick in the batch
\* specification
MaxLoadTick == 33
\* candidates in the list the worker selects from
MaxCandidates == 3
\* entries in an .ico container
MaxEntries == 3
\* requests enqueued by a caller that goes on ticking and never finishes
MaxLoadLive == 2

(***************************************************************************)
(* Program constants.                                                      *)
(***************************************************************************)
\* bounded::<LoadIconTaskRequest>(16)
RequestChannelCapacity == 16
\* let mut remaining = 32;
TickBatch == 32
\* the 32 of render_ico_icon's distance
IcoTargetSize == 32
\* i64::MAX, cut to the largest integer the checker represents: every
\* distance |32 - max(width, height)| of the model's entries is far below it
I64Max == 2147483647

\* Option::None of IconEntryModel::export_id
NoneId == -1

\* application identities (AppId)
Apps == {"a1", "a2"}

\* App::icon == None
NoIcon == "<none>"

\* icon source strings (absolute paths) an application may carry
Sources == {"/i/ok.png", "/i/zero.svg", "/i/empty.ico"}

\* icon source strings whose render fails without a panic
FailingSources == {"/i/zero.svg", "/i/missing.png"}

(***************************************************************************)
(* The files behind the source strings: what the worker finds on disk.     *)
(* entries lists max-relevant (width, height) pairs of an .ico container.  *)
(***************************************************************************)
IconFile(src) ==
    CASE src = "/i/ok.png" ->
           [ext |-> "png", readable |-> TRUE, valid |-> TRUE,
            width |-> 16, height |-> 16, entries |-> <<>>]
      [] src = "/i/zero.svg" ->
           [ext |-> "svg", readable |-> TRUE, valid |-> TRUE,
            width |-> 0, height |-> 0, entries |-> <<>>]
      [] src = "/i/empty.ico" ->
           [ext |-> "ico", readable |-> TRUE, valid |-> TRUE,
            width |-> 0, height |-> 0, entries |-> <<>>]
      [] OTHER ->
           [ext |-> "png", readable |-> FALSE, valid |-> FALSE,
            width |-> 0, height |-> 0, entries |-> <<>>]

VARIABLES
    model,             \* AppIconManager::model.values : AppId -> IconEntryModel
    seen_icons,        \* AppIconManager::seen_icons
    loader,            \* AppIconManager::loader is "None" or "Some"
    queue,             \* IconLoader::queue (Vec, last element is the top)
    sender,            \* IconLoader::sender: "open" or "dropped"
    chan,              \* the bounded request channel
    resp,              \* the unbounded response channel
    worker,            \* worker thread: "none", "idle", "busy", "exited", "panicked"
    cur,               \* the request the worker is handling (sequence of 0 or 1)
    to_load,           \* AppIconManager::to_load
    to_load_finished,  \* AppIconManager::to_load_finished
    files,             \* export ids n with a file <n>.png in the cache directory
    disk_model,        \* the model icons.json holds when it is valid JSON
    icons_json,        \* icons.json: "missing", "unreadable", "invalid", "valid"
    fg,                \* position of the foreground thread
    remaining,         \* tick's local counter
    called,            \* history: last icon passed to prepare_icon per application
    applied,           \* history: request number -> times its response was applied
    cancelled,         \* history: request numbers cancelled by finish
    sent,              \* history: request numbers sent into the request channel
    received,          \* history: request numbers the worker received
    responded,         \* history: request number -> responses the worker sent for it
    written,           \* history: export ids whose file was written in this run
    loaded,            \* history: the model as loaded by AppIconManager::new
    spawned,           \* history: worker threads created by this manager
    drop_panic,        \* history: an IconLocation was dropped with freed = false
    skipped,           \* history: the last call was a prepare_icon that returned
                       \* at "Skip because they are the same"
    args,              \* the arguments of a function of the icon finder
    result             \* what the function returned for args, once applied

vars == <<model, seen_icons, loader, queue, sender, chan, resp, worker, cur,
          to_load, to_load_finished, files, disk_model, icons_json, fg, remaining,
          called, applied, cancelled, sent, received, responded, written,
          loaded, spawned, drop_panic, skipped, args, result>>

managerVars == <<model, seen_icons, to_load, to_load_finished>>
loaderVars  == <<loader, queue, sender, chan, resp, worker, cur, spawned>>
pureVars    == <<args, result>>
historyVars == <<called, applied, cancelled, sent, received, responded,
                 written, loaded>>

EmptyModel == [a \in {} |-> [source_location |-> NoIcon, export_id |-> NoneId]]

\* history bags: request number -> count
EmptyBag == [r \in {} |-> 0]
BagAdd(b, r) ==
    [x \in DOMAIN b \cup {r} |-> IF x = r
                                 THEN (IF r \in DOMAIN b THEN b[r] + 1 ELSE 1)
                                 ELSE b[x]]

(***************************************************************************)
(* IconsModel                                                              *)
(***************************************************************************)
\* the set collected by find_free_id
UsedIds(m) == {m[a].export_id : a \in DOMAIN m} \ {NoneId}

\* the loop `for id in 0..usize::MAX` of find_free_id, from id on; it ends
\* long before usize::MAX, the set holding at most one id per entry
RECURSIVE first_free(_, _)
first_free(set, id) ==
    IF id \notin set THEN id ELSE first_free(set, id + 1)

\* mutant of find_free_id: the id after the largest one in use
find_free_id_AfterLast(m) ==
    IF UsedIds(m) = {} THEN 0
    ELSE 1 + CHOOSE id \in UsedIds(m) : \A j \in UsedIds(m) : j <= id

\* IconsModel::find_free_id: the first id of 0.. that no entry carries
find_free_id(m) == first_free(UsedIds(m), 0)

\* HashMap::insert
Insert(m, a, e) ==
    [x \in DOMAIN m \cup {a} |-> IF x = a THEN e ELSE m[x]]

\* HashMap::remove
Remove(m, a) == [x \in DOMAIN m \ {a} |-> m[x]]

\* mutant of new_location: the entry of an application that has one is kept
new_location_KeepsEntry(m, source_location, app, rid) ==
    LET id == find_free_id(m)
    IN  [model    |-> IF app \in DOMAIN m THEN m
                      ELSE Insert(m, app, [source_location |-> source_location,
                                           export_id |-> id]),
         location |-> [app_id |-> app, export_id |-> id, freed |-> FALSE,
                       rid |-> rid]]

\* AppIconManager::new_location; rid numbers the request (history only)
new_location(m, source_location, app, rid) ==
    LET id == find_free_id(m)
    IN  [model    |-> Insert(m, app, [source_location |-> source_location,
                                      export_id |-> id]),
         location |-> [app_id |-> app, export_id |-> id, freed |-> FALSE,
                       rid |-> rid]]

\* mutant of free_location: a failed render removes the entry
free_location_RemovesEntry(m, in_use, id) ==
    IF id.app_id \notin DOMAIN m
    THEN [model |-> m, panic |-> TRUE]
    ELSE IF ~in_use
         THEN [model |-> Remove(m, id.app_id), panic |-> FALSE]
         ELSE [model |-> m, panic |-> m[id.app_id].export_id # id.export_id]

\* AppIconManager::free_location: panic is TRUE when the unwrap or the
\* assert_eq fails, and the handle is then dropped with freed = false
free_location(m, in_use, id) ==
    IF id.app_id \notin DOMAIN m
    THEN [model |-> m, panic |-> TRUE]
    ELSE IF ~in_use
         THEN [model |-> [m EXCEPT ![id.app_id].export_id = NoneId],
               panic |-> FALSE]
         ELSE [model |-> m, panic |-> m[id.app_id].export_id # id.export_id]

\* AppIconManager::handle_responses over a Vec of responses. The state of the
\* loop (s) is bound as a value before each pass, so that a pass costs the
\* same whatever the number of passes before it
RECURSIVE handle_responses(_, _, _, _)
handle_responses(m, fin, done, rs) ==
    CHOOSE after \in
      { IF s.rs = <<>>
        THEN [model |-> s.m, to_load_finished |-> s.fin, applied |-> s.done,
              panic |-> FALSE]
        ELSE LET r  == Head(s.rs)
                 fl == free_location(s.m, r.kind = "Success", r.location)
             IN  IF fl.panic
                 THEN [model |-> fl.model, to_load_finished |-> s.fin + 1,
                       applied |-> s.done, panic |-> TRUE]
                 ELSE handle_responses(fl.model, s.fin + 1,
                                       BagAdd(s.done, r.location.rid),
                                       Tail(s.rs))
        : s \in {[m |-> m, fin |-> fin, done |-> done, rs |-> rs]} } : TRUE

\* mutant of remove_icon: the entry goes, the file stays
remove_icon_KeepsFile(m, fs, app) ==
    IF app \in DOMAIN m
    THEN [model |-> Remove(m, app), files |-> fs]
    ELSE [model |-> m, files |-> fs]

\* AppIconManager::remove_icon: the entry goes, and the file of its export id
remove_icon(m, fs, app) ==
    IF app \notin DOMAIN m
    THEN [model |-> m, files |-> fs]
    ELSE [model |-> Remove(m, app),
          files |-> IF m[app].export_id = NoneId THEN fs
                    ELSE fs \ {m[app].export_id}]

\* AppIconManager::purge_unseen_icons
RECURSIVE RemoveAll(_, _, _)
RemoveAll(m, fs, to_remove) ==
    IF to_remove = {}
    THEN [model |-> m, files |-> fs]
    ELSE LET id == CHOOSE x \in to_remove : TRUE
             r  == remove_icon(m, fs, id)
         IN  RemoveAll(r.model, r.files, to_remove \ {id})

\* mutant of purge_unseen_icons: nothing is removed
purge_unseen_icons_KeepsAll(m, fs, seen) == [model |-> m, files |-> fs]

purge_unseen_icons(m, fs, seen) ==
    RemoveAll(m, fs, {id \in DOMAIN m : id \notin seen})

\* AppIconManager::read_icon: the export id whose path canonicalizes, or NoneId
read_icon(m, fs, id) ==
    IF id \notin DOMAIN m THEN NoneId
    ELSE IF m[id].export_id = NoneId THEN NoneId
    ELSE IF m[id].export_id \in fs THEN m[id].export_id
    ELSE NoneId

(***************************************************************************)
(* IconLoader: rendering                                                   *)
(***************************************************************************)
Max(a, b) == IF a >= b THEN a ELSE b
Abs(a) == IF a < 0 THEN -a ELSE a

\* mutant of closest_entry: an entry as close as the closest so far wins
RECURSIVE closest_entry_Last(_, _, _, _)
closest_entry_Last(entries, i, closest_entry_i, closest_distance) ==
    IF i >= Len(entries)
    THEN closest_entry_i
    ELSE LET entry    == entries[i + 1]
             distance == Abs(IcoTargetSize - Max(entry.width, entry.height))
         IN  IF distance <= closest_distance
             THEN closest_entry_Last(entries, i + 1, i, distance)
             ELSE closest_entry_Last(entries, i + 1, closest_entry_i,
                                     closest_distance)

\* the loop of render_ico_icon: (closest_entry_i, closest_distance), 0-based
RECURSIVE closest_entry(_, _, _, _)
closest_entry(entries, i, closest_entry_i, closest_distance) ==
    IF i >= Len(entries)
    THEN closest_entry_i
    ELSE LET entry    == entries[i + 1]
             distance == Abs(IcoTargetSize - Max(entry.width, entry.height))
         IN  IF distance < closest_distance
             THEN closest_entry(entries, i + 1, i, distance)
             ELSE closest_entry(entries, i + 1, closest_entry_i, closest_distance)

\* IconLoader::render_ico_icon: indexing entries() panics out of bounds
render_ico_icon(entries) ==
    LET closest_entry_i == closest_entry(entries, 0, 0, I64Max)
    IN  IF closest_entry_i >= Len(entries)
        THEN [status |-> "panic", width |-> 0, height |-> 0]
        ELSE IF ~entries[closest_entry_i + 1].decodes
             THEN [status |-> "err", width |-> 0, height |-> 0]
             ELSE [status |-> "ok",
                   width  |-> entries[closest_entry_i + 1].width,
                   height |-> entries[closest_entry_i + 1].height]

\* IconLoader::render_svg_icon: Pixmap::new is None for a zero dimension
render_svg_icon(f) ==
    IF ~f.valid THEN [status |-> "err", width |-> 0, height |-> 0]
    ELSE IF f.width = 0 \/ f.height = 0
         THEN [status |-> "err", width |-> 0, height |-> 0]
         ELSE [status |-> "ok", width |-> f.width, height |-> f.height]

\* IconLoader::render_icon
render_icon(f) ==
    IF f.ext = "svg"
    THEN IF ~f.readable THEN [status |-> "err", width |-> 0, height |-> 0]
         ELSE render_svg_icon(f)
    ELSE IF f.ext = "ico"
         THEN IF ~f.readable \/ ~f.valid
              THEN [status |-> "err", width |-> 0, height |-> 0]
              ELSE render_ico_icon(f.entries)
         ELSE IF ~f.readable \/ ~f.valid
              THEN [status |-> "err", width |-> 0, height |-> 0]
              ELSE [status |-> "ok", width |-> f.width, height |-> f.height]

\* IconLoader::load_icon: "ok" writes output.path
load_icon(icon_path) == render_icon(IconFile(icon_path)).status

(***************************************************************************)
(* Initial state: AppIconManager::new over what earlier runs left.         *)
(***************************************************************************)
\* the fields AppIconManager::new gives a manager, and empty histories
NewFields(m) ==
    /\ model = m
    /\ seen_icons = {}
    /\ loader = "None"
    /\ queue = <<>>
    /\ sender = "dropped"
    /\ chan = <<>>
    /\ resp = <<>>
    /\ worker = "none"
    /\ cur = <<>>
    /\ to_load = 0
    /\ to_load_finished = 0
    /\ remaining = 0
    /\ called = [a \in Apps |-> NoIcon]
    /\ applied = EmptyBag
    /\ cancelled = {}
    /\ sent = {}
    /\ received = {}
    /\ responded = EmptyBag
    /\ written = {}
    /\ loaded = m
    /\ spawned = 0
    /\ drop_panic = FALSE
    /\ skipped = FALSE

\* no function of the icon finder is being applied
NoFinderCall ==
    /\ args = <<>>
    /\ result = <<>>

\* a manager on which nothing has been called yet
FreshManager(m) ==
    /\ NewFields(m)
    /\ fg = "idle"
    /\ NoFinderCall

\* What earlier runs of the launcher leave behind, read by AppIconManager::new
\* through Config::read_file: icons.json (model) and the <id>.png files.
PersistedStates ==
    { \* first start: no icons.json (read_file gives the default), no files
      [json |-> "missing", model |-> EmptyModel, files |-> {}],
      \* a run rendered the icon of a2 into 0.png and saved
      [json |-> "valid",
       model |-> [a \in {"a2"} |->
                    [source_location |-> "/i/ok.png", export_id |-> 0]],
       files |-> {0}],
      \* a run wrote 0.png and ended before any save
      [json |-> "missing", model |-> EmptyModel, files |-> {0}],
      \* a run failed to render the icon of a1 and saved
      [json |-> "valid",
       model |-> [a \in {"a1"} |->
                    [source_location |-> "/i/zero.svg", export_id |-> NoneId]],
       files |-> {}] }

Init ==
    \E p \in PersistedStates :
        /\ FreshManager(p.model)
        /\ files = p.files
        /\ disk_model = p.model
        /\ icons_json = p.json

\* the caller is between two calls on the manager; after finish() has returned
\* it is at "finished", where Spec lets it only discard the manager
Callable == fg = "idle"

\* the handles that exist outside the model
Outstanding ==
    {queue[i].location : i \in 1..Len(queue)}
        \cup {chan[i].location : i \in 1..Len(chan)}
        \cup {cur[i].location : i \in 1..Len(cur)}
        \cup {resp[i].location : i \in 1..Len(resp)}


\* the process is gone (abort, or the manager went out of scope at exit): its
\* memory goes with it; the cache directory and icons.json stay
ProcessEnds(how, thread, unfreed) ==
    /\ fg' = how
    /\ worker' = thread
    /\ drop_panic' = unfreed
    /\ model' = EmptyModel
    /\ seen_icons' = {}
    /\ loader' = "None"
    /\ queue' = <<>>
    /\ sender' = "dropped"
    /\ chan' = <<>>
    /\ resp' = <<>>
    /\ cur' = <<>>
    /\ to_load' = 0
    /\ to_load_finished' = 0
    /\ remaining' = 0
    /\ called' = [a \in Apps |-> NoIcon]
    /\ applied' = EmptyBag
    /\ cancelled' = {}
    /\ sent' = {}
    /\ received' = {}
    /\ responded' = EmptyBag
    /\ written' = {}
    /\ loaded' = EmptyModel
    /\ spawned' = 0
    /\ skipped' = FALSE
    /\ UNCHANGED <<disk_model, icons_json, pureVars>>

(***************************************************************************)
(* AppIconManager::prepare_icon                                            *)
(***************************************************************************)
\* mutant of SameSource: an entry the render of which failed is not skipped
SameSourceIfRendered(m, app, source) ==
    /\ app \in DOMAIN m
    /\ m[app].source_location = source
    /\ m[app].export_id # NoneId

\* the skip test of prepare_icon: an entry with the same source exists
SameSource(m, app, source) ==
    /\ app \in DOMAIN m
    /\ m[app].source_location = source

\* IconLoader::new: fresh channels, an empty queue and a new worker thread
SpawnLoader ==
    /\ loader' = "Some"
    /\ sender' = "open"
    /\ chan' = <<>>
    /\ resp' = <<>>
    /\ worker' = "idle"
    /\ cur' = <<>>
    /\ spawned' = spawned + 1

\* get_or_insert_with(IconLoader::new) followed by IconLoader::enqueue
GetLoaderAndEnqueue(request) ==
    IF loader = "None"
    THEN /\ SpawnLoader
         /\ queue' = <<request>>
    ELSE /\ queue' = Append(queue, request)
         /\ UNCHANGED <<loader, sender, chan, resp, worker, cur, spawned>>

prepare_icon(app, icon, sources, maxLoad) ==
    /\ Callable
    /\ fg' = "idle"
    /\ UNCHANGED <<to_load_finished, files, disk_model, icons_json, pureVars, remaining, applied, cancelled, sent, received, responded, written,
                   loaded, drop_panic>>
    /\ skipped' = (icon # NoIcon /\ SameSource(model, app, icon))
    /\ IF icon = NoIcon
       THEN UNCHANGED <<model, seen_icons, to_load, loaderVars, called>>
       ELSE /\ icon \in sources
            /\ seen_icons' = seen_icons \cup {app}
            /\ called' = [called EXCEPT ![app] = icon]
            /\ IF SameSource(model, app, icon)
               THEN UNCHANGED <<model, to_load, loaderVars>>
               ELSE /\ to_load < maxLoad
                    /\ to_load' = to_load + 1
                    /\ LET nl == new_location(model, icon, app, to_load + 1)
                       IN  /\ model' = nl.model
                           /\ GetLoaderAndEnqueue([id |-> app, icon |-> icon,
                                                   location |-> nl.location])

PrepareIcon == \E app \in Apps, icon \in Sources \cup {NoIcon} :
                 prepare_icon(app, icon, Sources, MaxLoad)

(***************************************************************************)
(* AppIconManager::tick / IconLoader::tick                                 *)
(***************************************************************************)
\* try_send reports Full
ChannelFull(c) == Len(c) >= RequestChannelCapacity

\* mutant of TrySendReturns: a send that waits for room in the channel
SendWaitsForRoom(c) == ~ChannelFull(c)

\* try_send returns at once, with Ok or with Full, whatever the channel holds
TrySendReturns(c) == TRUE

\* Vec::pop and Vec::push on IconLoader::queue
Top(q) == q[Len(q)]
Pop(q) == SubSeq(q, 1, Len(q) - 1)
\* mutant of Push: the rejected request is not put back
PushDrops(q, value) == q

Push(q, value) == Append(q, value)

\* mutant of BatchDone: the send loop has no limit
BatchNeverDone(r) == FALSE

\* if remaining == 0 { break; }
BatchDone(r) == r = 0

\* AppIconManager::tick found a loader and IconLoader::tick is at its first
\* loop test; both read only what the foreground owns
TickEntered == Callable /\ loader = "Some"

\* the value of tick's local `remaining`: 32 when the call begins; the
\* variable holds it from the first pass of the send loop until tick returns
Remaining == IF Callable THEN TickBatch ELSE remaining

\* the value AppIconManager::tick returns: true when it found a loader
tick_returns == loader = "Some"

\* one pass of the while-let loop of IconLoader::tick: pop and try_send. The
\* loop tests that follow a successful send (remaining == 0, queue.pop() is
\* None) read only what the foreground owns and are part of the step
TickSend ==
    /\ TickEntered \/ fg = "tick_send"
    /\ queue # <<>>
    /\ TrySendReturns(chan)
    /\ skipped' = FALSE
    /\ UNCHANGED <<managerVars, loader, sender, resp, worker, cur, spawned,
                   files, disk_model, icons_json, pureVars, called, applied, cancelled,
                   received, responded, written, loaded, drop_panic>>
    /\ LET value == Top(queue)
       IN  IF ChannelFull(chan)
           THEN \* TrySendError::Full(value): push it back and break
                /\ queue' = Push(Pop(queue), value)
                /\ fg' = "tick_recv"
                /\ remaining' = Remaining
                /\ UNCHANGED <<chan, sent>>
           ELSE /\ queue' = Pop(queue)
                /\ chan' = Append(chan, value)
                /\ sent' = sent \cup {value.location.rid}
                /\ remaining' = Remaining - 1
                /\ fg' = IF BatchDone(Remaining - 1) \/ Pop(queue) = <<>>
                         THEN "tick_recv" ELSE "tick_send"

\* the try_recv loop of IconLoader::tick, then handle_responses
TickRecv ==
    /\ (TickEntered /\ queue = <<>>) \/ fg = "tick_recv"
    /\ LET hr == handle_responses(model, to_load_finished, applied, resp)
       IN  IF hr.panic
           THEN \* free_location panics holding a handle with freed = false
                /\ ProcessEnds("aborted", "none", TRUE)
                /\ UNCHANGED files
           ELSE /\ model' = hr.model
                /\ to_load_finished' = hr.to_load_finished
                /\ applied' = hr.applied
                /\ fg' = "idle"
                /\ resp' = <<>>
                /\ remaining' = 0
                /\ skipped' = FALSE
                /\ UNCHANGED <<seen_icons, to_load, loader, queue, sender,
                               chan, worker, cur, spawned, files, disk_model, icons_json, pureVars,
                               called, cancelled, sent,
                               received, responded, written, loaded,
                               drop_panic>>

(***************************************************************************)
(* The worker thread of IconLoader::new                                    *)
(***************************************************************************)
ProcessAlive == fg \notin {"aborted", "dropped"}

\* requester.recv() returns Ok(request)
WorkerRecv ==
    /\ ProcessAlive
    /\ worker = "idle"
    /\ chan # <<>>
    /\ cur' = <<Head(chan)>>
    /\ chan' = Tail(chan)
    /\ worker' = "busy"
    /\ received' = received \cup {Head(chan).location.rid}
    /\ UNCHANGED <<managerVars, loader, queue, sender, resp, spawned, files,
                   disk_model, icons_json, pureVars, fg, remaining, called, applied,
                   cancelled, sent, responded, written, loaded, drop_panic>>
    /\ UNCHANGED skipped

\* load_icon on the received request, and the response. A panic inside
\* load_icon unwinds the worker: request.location is dropped with
\* freed = false, its Drop panics in turn, and that aborts the process
WorkerRender ==
    /\ ProcessAlive
    /\ worker = "busy"
    /\ LET request == cur[1]
           outcome == load_icon(request.icon)
       IN  IF outcome = "panic"
           THEN /\ ProcessEnds("aborted", "panicked", TRUE)
                /\ UNCHANGED files
           ELSE /\ files' = IF outcome = "ok"
                            THEN files \cup {request.location.export_id}
                            ELSE files
                /\ written' = IF outcome = "ok"
                              THEN written \cup {request.location.export_id}
                              ELSE written
                /\ resp' = Append(resp, [kind |-> IF outcome = "ok"
                                                  THEN "Success" ELSE "Fail",
                                         error |-> IF outcome = "ok" THEN ""
                                                   ELSE "render",
                                         location |-> request.location])
                /\ responded' = BagAdd(responded, request.location.rid)
                /\ worker' = "idle"
                /\ cur' = <<>>
                /\ UNCHANGED <<managerVars, loader, queue, sender, chan,
                               spawned, disk_model, icons_json, pureVars, fg, remaining, called, applied, cancelled, sent, received,
                               loaded, drop_panic, skipped>>

\* mutant of WorkerMayExit: recv fails as soon as the sender is dropped
WorkerExitsOnDrop == sender = "dropped"

\* requester.recv() returns Err: the channel is empty and has no sender
WorkerMayExit == sender = "dropped" /\ chan = <<>>

WorkerExit ==
    /\ ProcessAlive
    /\ worker = "idle"
    /\ WorkerMayExit
    /\ worker' = "exited"
    /\ UNCHANGED <<managerVars, loader, queue, sender, chan, resp, cur,
                   spawned, files, disk_model, icons_json, pureVars, fg, remaining, historyVars, drop_panic>>
    /\ UNCHANGED skipped


(***************************************************************************)
(* AppIconManager::finish / IconLoader::finish / AppIconManager::save      *)
(***************************************************************************)
\* AppIconManager::save: purge_unseen_icons, then Config::write_file, which
\* leaves icons.json as the JSON of the model
save ==
    LET p == purge_unseen_icons(model, files, seen_icons)
    IN  /\ model' = p.model
        /\ files' = p.files
        /\ disk_model' = p.model
        /\ icons_json' = "valid"

\* finish without a loader: nothing to join, save
FinishNoLoader ==
    /\ Callable
    /\ loader = "None"
    /\ save
    /\ fg' = "finished"
    /\ UNCHANGED <<seen_icons, to_load, to_load_finished, loaderVars,
                   remaining, historyVars, drop_panic, pureVars>>
    /\ skipped' = FALSE

\* mutant of take: the loader stays in the manager
take_Keeps(l) == l

\* Option::take: what it leaves in self.loader
take(l) == "None"

\* loader.take(), drop(self.sender), and the foreground blocks in join()
FinishBegin ==
    /\ Callable
    /\ loader = "Some"
    /\ loader' = take(loader)
    /\ sender' = "dropped"
    /\ fg' = "finish_join"
    /\ UNCHANGED <<managerVars, queue, chan, resp, worker, cur, spawned, files,
                   disk_model, icons_json, pureVars, remaining, historyVars, drop_panic>>
    /\ skipped' = FALSE

\* mutant of Cancel: the queued requests get no response
Cancel_Nothing(q) == <<>>

\* the map of IconLoader::finish over the local queue
Cancel(q) ==
    [i \in 1..Len(q) |-> [kind |-> "Fail", error |-> "Cancelled",
                          location |-> q[i].location]]

\* mutant of FinishOutput: the local queue is forgotten
FinishOutputDropsQueue(q, rs) == rs

\* the output of IconLoader::finish once join() has returned
FinishOutput(q, rs) == Cancel(q) \o rs

\* join() returns: collect the output, apply it, save
FinishJoin ==
    /\ fg = "finish_join"
    /\ worker = "exited"
    /\ LET output == FinishOutput(queue, resp)
           hr     == handle_responses(model, to_load_finished, applied, output)
           p      == purge_unseen_icons(hr.model, files, seen_icons)
       IN  IF hr.panic
           THEN /\ ProcessEnds("aborted", "none", TRUE)
                /\ UNCHANGED files
           ELSE /\ to_load_finished' = hr.to_load_finished
                /\ applied' = hr.applied
                /\ cancelled' = cancelled \cup
                                  {queue[i].location.rid : i \in 1..Len(queue)}
                /\ fg' = "finished"
                /\ model' = p.model
                /\ files' = p.files
                /\ disk_model' = p.model
                /\ icons_json' = "valid"
                /\ queue' = <<>>
                /\ resp' = <<>>
                /\ UNCHANGED <<seen_icons, to_load, loader, sender, chan,
                               worker, cur, spawned, remaining, called,
                               sent, received, responded, written, loaded,
                               drop_panic, skipped, pureVars>>

(***************************************************************************)
(* The manager is discarded; the launcher is started again.                *)
(***************************************************************************)
\* Whether dropping the manager drops a handle with freed = false. The
\* requests of the local queue are dropped with the loader, at once. A handle
\* in a channel or at the worker is dropped unfreed only if the worker (whose
\* responder.send then fails) or the channel's disposal gets to it before the
\* process has exited
DropsUnfreed ==
    IF queue # <<>> THEN {TRUE}
    ELSE IF Outstanding # {} THEN {TRUE, FALSE}
    ELSE {FALSE}

\* the manager goes out of scope and the process ends, by the panic of
\* Drop for IconLocation if a handle is dropped unfreed
Discard ==
    /\ fg \in {"idle", "finished"}
    /\ \E unfreed \in DropsUnfreed :
         ProcessEnds(IF unfreed THEN "aborted" ELSE "dropped", "none", unfreed)
    /\ UNCHANGED files

Next ==
    \/ PrepareIcon
    \/ TickSend
    \/ TickRecv
    \/ WorkerRecv
    \/ WorkerRender
    \/ WorkerExit
    \/ FinishNoLoader
    \/ FinishBegin
    \/ FinishJoin
    \/ Discard

Spec == Init /\ [][Next]_vars


(***************************************************************************)
(* Backpressure: one application whose icon source keeps changing between  *)
(* two sources that fail to render, so that more requests are enqueued     *)
(* than the request channel holds. The caller prepares icons before its    *)
(* first tick sends anything, and again whenever the request channel is    *)
(* full; the worker runs at any speed.                                     *)
(***************************************************************************)
InitBP ==
    /\ FreshManager(EmptyModel)
    /\ files = {}
    /\ disk_model = EmptyModel
    /\ icons_json = "missing"

PrepareIconBP ==
    /\ sent = {} \/ ChannelFull(chan)
    /\ \E icon \in FailingSources :
         prepare_icon("a1", icon, FailingSources, MaxLoadBP)

NextBP ==
    \/ PrepareIconBP
    \/ TickSend
    \/ TickRecv
    \/ WorkerRecv
    \/ WorkerRender

SpecBP == InitBP /\ [][NextBP]_vars


(***************************************************************************)
(* Batches: the caller enqueues more requests than one tick sends, all of  *)
(* them before its first tick; the worker runs at any speed, so that the   *)
(* request channel may or may not fill up during a tick.                   *)
(***************************************************************************)
PrepareIconTick ==
    /\ sent = {}
    /\ \E icon \in FailingSources :
         prepare_icon("a1", icon, FailingSources, MaxLoadTick)

\* the caller's first tick comes when everything is enqueued
TickSendTick ==
    /\ to_load = MaxLoadTick
    /\ TickSend

NextTick ==
    \/ PrepareIconTick
    \/ TickSendTick
    \/ TickRecv
    \/ WorkerRecv
    \/ WorkerRender

SpecTick == InitBP /\ [][NextTick]_vars


(***************************************************************************)
(* The manager is used again after finish() has returned.                  *)
(***************************************************************************)
\* finish() leaves the manager usable: the caller goes on calling it
Reuse ==
    /\ fg = "finished"
    /\ fg' = "idle"
    /\ UNCHANGED <<managerVars, loaderVars, files, disk_model, icons_json, pureVars, remaining,
                   historyVars, drop_panic, skipped>>

PrepareIconReuse == \E app \in Apps, icon \in Sources \cup {NoIcon} :
                      prepare_icon(app, icon, Sources, MaxLoadReuse)

NextReuse ==
    \/ PrepareIconReuse
    \/ TickSend
    \/ TickRecv
    \/ WorkerRecv
    \/ WorkerRender
    \/ WorkerExit
    \/ FinishNoLoader
    \/ FinishBegin
    \/ FinishJoin
    \/ Discard
    \/ Reuse

SpecReuse == Init /\ [][NextReuse]_vars


(***************************************************************************)
(* finish() is called a second time, right after it has returned.          *)
(***************************************************************************)
\* the second call of finish(): with a loader it would drop the sender and
\* join, without one it goes straight to save
FinishAgain ==
    /\ fg = "finished"
    /\ skipped' = FALSE
    /\ IF loader = "Some"
       THEN /\ loader' = take(loader)
            /\ sender' = "dropped"
            /\ fg' = "finish_join"
            /\ UNCHANGED <<managerVars, queue, chan, resp, worker, cur,
                           spawned, files, disk_model, icons_json, pureVars,
                           remaining, historyVars, drop_panic>>
       ELSE /\ save
            /\ fg' = "finished_again"
            /\ UNCHANGED <<seen_icons, to_load, to_load_finished, loaderVars,
                           remaining, historyVars, drop_panic, pureVars>>

NextTwice ==
    \/ PrepareIconReuse
    \/ TickSend
    \/ TickRecv
    \/ WorkerRecv
    \/ WorkerRender
    \/ WorkerExit
    \/ FinishNoLoader
    \/ FinishBegin
    \/ FinishJoin
    \/ FinishAgain

SpecTwice == Init /\ [][NextTwice]_vars


(***************************************************************************)
(* The caller clears the icons between its other calls.                    *)
(***************************************************************************)
\* AppIconManager::clear_icons: remove_icon on every key of the model
RECURSIVE clear_icons(_, _)
clear_icons(m, fs) ==
    IF DOMAIN m = {}
    THEN [model |-> m, files |-> fs]
    ELSE LET id == CHOOSE a \in DOMAIN m : TRUE
             r  == remove_icon(m, fs, id)
         IN  clear_icons(r.model, r.files)

ClearIcons ==
    /\ Callable
    /\ LET c == clear_icons(model, files)
       IN  /\ model' = c.model
           /\ files' = c.files
    /\ fg' = "idle"
    /\ skipped' = FALSE
    /\ UNCHANGED <<seen_icons, to_load, to_load_finished, loaderVars,
                   disk_model, icons_json, remaining, historyVars, drop_panic,
                   pureVars>>

NextClear ==
    \/ PrepareIconReuse
    \/ ClearIcons
    \/ TickSend
    \/ TickRecv
    \/ WorkerRecv
    \/ WorkerRender
    \/ WorkerExit
    \/ FinishNoLoader
    \/ FinishBegin
    \/ FinishJoin

SpecClear == Init /\ [][NextClear]_vars


(***************************************************************************)
(* Progress without finish(): the caller stops preparing icons at some     *)
(* point and goes on calling tick; the worker thread is scheduled.         *)
(***************************************************************************)
PrepareIconLive == \E app \in Apps, icon \in Sources \cup {NoIcon} :
                     prepare_icon(app, icon, Sources, MaxLoadLive)

NextLive ==
    \/ PrepareIconLive
    \/ TickSend
    \/ TickRecv
    \/ WorkerRecv
    \/ WorkerRender

\* the caller's loop calls tick again and again, and a tick that has begun
\* runs to its end; the worker thread, blocked in recv or rendering, runs
\* when it can
SpecLive ==
    /\ Init
    /\ [][NextLive]_vars
    /\ WF_vars(TickSend)
    /\ WF_vars(TickRecv)
    /\ WF_vars(WorkerRecv)
    /\ WF_vars(WorkerRender)


(***************************************************************************)
(* Construction: AppIconManager::new over any icons.json.                  *)
(***************************************************************************)
\* Config::read_file: the default for a file that is not found or does not
\* parse, an error for any other failure of read_to_string
read_file(json, content) ==
    CASE json = "missing"    -> [ok |-> TRUE,  value |-> EmptyModel]
      [] json = "unreadable" -> [ok |-> FALSE, value |-> EmptyModel]
      [] json = "invalid"    -> [ok |-> TRUE,  value |-> EmptyModel]
      [] OTHER               -> [ok |-> TRUE,  value |-> content]

\* what the cache directory may hold when the launcher starts
DiskStates ==
    PersistedStates \cup
    { \* read_to_string fails other than by NotFound: the file is not UTF-8,
      \* may not be read, or is a directory
      [json |-> "unreadable", model |-> EmptyModel, files |-> {0}],
      \* the file is text that is no JSON of IconsModel
      [json |-> "invalid", model |-> EmptyModel, files |-> {0}] }

\* no manager exists yet
InitNew ==
    \E p \in DiskStates :
        /\ NewFields(EmptyModel)
        /\ NoFinderCall
        /\ fg = "start"
        /\ files = p.files
        /\ disk_model = p.model
        /\ icons_json = p.json

\* AppIconManager::new: Err when read_file fails, else the manager
new ==
    /\ fg = "start"
    /\ LET r == read_file(icons_json, disk_model)
       IN  IF r.ok
           THEN /\ fg' = "idle"
                /\ model' = r.value
                /\ loaded' = r.value
           ELSE /\ fg' = "new_failed"
                /\ UNCHANGED <<model, loaded>>
    /\ UNCHANGED <<seen_icons, to_load, to_load_finished, loaderVars, files,
                   disk_model, icons_json, pureVars, remaining, called, applied,
                   cancelled, sent, received, responded, written, drop_panic,
                   skipped>>

NextNew ==
    \/ new
    \/ PrepareIconReuse
    \/ TickSend
    \/ TickRecv
    \/ WorkerRecv
    \/ WorkerRender
    \/ WorkerExit
    \/ FinishNoLoader
    \/ FinishBegin
    \/ FinishJoin
    \/ Discard

SpecNew == InitNew /\ [][NextNew]_vars


(***************************************************************************)
(* The icon finder (src/src/apps/icons/finder.rs): IconDescriptor::ord.    *)
(***************************************************************************)
\* u16::MAX
U16Max == 65535

\* how far the sizes of the model reach around 0, the preferred icon size,
\* the middle of u16 and u16::MAX
OrdSpan == 2

\* PREFERRED_ICON_SIZE
PreferredIconSize == 32

\* the u16 values around c
Near(c) == {x \in (c - OrdSpan)..(c + OrdSpan) : x >= 0 /\ x <= U16Max}

\* sizes and targets: u16 values where the cases of ord change
Sizes16 ==
    Near(0) \cup Near(PreferredIconSize) \cup Near((U16Max + 1) \div 2)
        \cup Near(U16Max)

\* Option<IconSize>
NoSize == [kind |-> "None", px |-> 0]
Scalable == [kind |-> "Scalable", px |-> 0]
Fixed(size) == [kind |-> "Fixed", px |-> size]

\* Option<String> of IconDescriptor::theme: None; Some(s) is <<s>>, with s
\* the sequence of the characters of the string
NoTheme == <<>>

\* IconDescriptor::default()
DefaultDescriptor == [size |-> NoSize, scale |-> 1, theme |-> NoTheme]

\* the result of a u16 subtraction whose difference in the integers is d:
\* below zero it panics with overflow checks (debug profile) and wraps
\* without (release profile)
SubU16(d, overflow_checks) ==
    IF d >= 0 THEN [panic |-> FALSE, value |-> d]
    ELSE IF overflow_checks THEN [panic |-> TRUE, value |-> 0]
    ELSE [panic |-> FALSE, value |-> d + U16Max + 1]

\* IconDescriptor::ord; higher is better
ord(self, target, overflow_checks) ==
    LET size_score ==
            CASE self.size.kind = "None" -> SubU16(0, overflow_checks)
              [] self.size.kind = "Scalable" ->
                   SubU16(U16Max - 1, overflow_checks)
              [] OTHER ->
                   IF self.size.px = target
                   THEN SubU16(U16Max, overflow_checks)
                   ELSE IF self.size.px > target
                        THEN SubU16(U16Max - (self.size.px - target),
                                    overflow_checks)
                        ELSE SubU16((U16Max \div 2) - (target - self.size.px),
                                    overflow_checks)
    IN  [panic |-> size_score.panic, size_score |-> size_score.value,
         scale |-> self.scale]

\* derive(Ord) of IconDescOrd: size_score first, then scale
OrdLess(a, b) ==
    \/ a.size_score < b.size_score
    \/ a.size_score = b.size_score /\ a.scale < b.scale

\* no manager is involved in a call of the finder
NoManager ==
    /\ NewFields(EmptyModel)
    /\ fg = "start"
    /\ files = {}
    /\ disk_model = EmptyModel
    /\ icons_json = "missing"

OrdArgs ==
    [fn : {"ord"},
     self : [size : {NoSize, Scalable} \cup {Fixed(s) : s \in Sizes16},
             scale : {1, 2}, theme : {NoTheme}],
     target : Sizes16,
     overflow_checks : BOOLEAN]

InitOrd ==
    /\ NoManager
    /\ args \in OrdArgs
    /\ result = <<>>

\* one call of ord
Ord ==
    /\ result = <<>>
    /\ args.fn = "ord"
    /\ result' = <<ord(args.self, args.target, args.overflow_checks)>>
    /\ UNCHANGED <<managerVars, loaderVars, files, disk_model, icons_json, fg,
                   remaining, historyVars, drop_panic, skipped, args>>

NextOrd == Ord

SpecOrd == InitOrd /\ [][NextOrd]_vars


(***************************************************************************)
(* The icon finder: IconDescriptor::apply. A string is the sequence of its *)
(* characters.                                                             *)
(***************************************************************************)
Digits == <<"0", "1", "2", "3", "4", "5", "6", "7", "8", "9">>

IsDigit(c) == \E i \in 1..Len(Digits) : Digits[i] = c
DigitValue(c) == (CHOOSE i \in 1..Len(Digits) : Digits[i] = c) - 1

\* str::split_once on a character: around its first occurrence
split_once(s, c) ==
    IF \E i \in 1..Len(s) : s[i] = c
    THEN LET i == CHOOSE k \in 1..Len(s) :
                      s[k] = c /\ \A j \in 1..(k - 1) : s[j] # c
         IN  [found |-> TRUE, left |-> SubSeq(s, 1, i - 1),
              right |-> SubSeq(s, i + 1, Len(s))]
    ELSE [found |-> FALSE, left |-> s, right |-> <<>>]

\* the digits of from_str, most significant first: Err on a character that
\* is no digit and on a value above max
RECURSIVE parse_digits(_, _, _)
parse_digits(s, acc, max) ==
    IF s = <<>> THEN [ok |-> TRUE, value |-> acc]
    ELSE IF ~IsDigit(Head(s)) THEN [ok |-> FALSE, value |-> 0]
    ELSE LET next == acc * 10 + DigitValue(Head(s))
         IN  IF next > max THEN [ok |-> FALSE, value |-> 0]
             ELSE parse_digits(Tail(s), next, max)

\* u16::from_str and u32::from_str: an optional '+', then at least one digit
from_str(s, max) ==
    LET digits == IF s # <<>> /\ Head(s) = "+" THEN Tail(s) ELSE s
    IN  IF digits = <<>> THEN [ok |-> FALSE, value |-> 0]
        ELSE parse_digits(digits, 0, max)

\* dir_name.chars().filter(|c| c == &'x').count()
CountX(s) == Cardinality({i \in 1..Len(s) : s[i] = "x"})

\* the part of apply after the scale: size and theme from the name
apply_name(self, dir_name) ==
    LET scalable == IF dir_name = <<"s", "c", "a", "l", "a", "b", "l", "e">>
                    THEN Scalable ELSE self.size
        sp       == split_once(dir_name, "x")
        left     == from_str(sp.left, U16Max)
        right    == from_str(sp.right, U16Max)
        wxh      == IF CountX(dir_name) = 1 /\ sp.found /\ left.ok /\ right.ok
                    THEN Fixed(Max(left.value, right.value))
                    ELSE scalable
        number   == from_str(dir_name, U16Max)
    IN  [panic |-> FALSE,
         size  |-> IF number.ok THEN Fixed(number.value) ELSE wxh,
         scale |-> self.scale,
         theme |-> IF self.theme = NoTheme THEN <<dir_name>> ELSE self.theme]

\* IconDescriptor::apply: the assert on the length of the scale and the
\* unwrap of its first character panic
apply(self, dir_name) ==
    LET sp == split_once(dir_name, "@")
    IN  IF ~sp.found THEN apply_name(self, dir_name)
        ELSE IF Len(sp.right) \notin 1..2
             THEN [panic |-> TRUE, size |-> self.size, scale |-> self.scale,
                   theme |-> self.theme]
             ELSE \* u32::from_str(&scale[0..1]): one character, so the value
                  \* is at most 9 and the limit of the type plays no part
                  LET scale == from_str(SubSeq(sp.right, 1, 1), U16Max)
                  IN  IF ~scale.ok
                      THEN [panic |-> TRUE, size |-> self.size,
                            scale |-> self.scale, theme |-> self.theme]
                      ELSE apply_name([self EXCEPT !.scale = scale.value],
                                      sp.left)

\* decimal numerals of directory names
Numerals ==
    { <<"0">>, <<"8">>, <<"1", "6">>, <<"3", "2">>, <<"0", "6", "4">>,
      <<"2", "5", "6">>, <<"6", "5", "5", "3", "5">> }

\* names of the form WxH
WxHNames == {w \o <<"x">> \o h : w, h \in Numerals}

\* names of theme directories without a scale
BaseNames ==
    WxHNames \cup Numerals \cup
    { <<"s", "c", "a", "l", "a", "b", "l", "e">>, <<"a", "p", "p", "s">>,
      <<"x">>, <<"3", "2", "x">>, <<"1", "x", "2", "x", "3">>,
      <<"6", "5", "5", "3", "6", "x", "1">> }

\* the scales N of a suffix @Nx
ScaleNumerals == { <<"1">>, <<"2">>, <<"3">>, <<"1", "0">> }

ApplyArgs ==
    [fn : {"apply"}, name : BaseNames, suffix : {<<>>}]
        \cup [fn : {"apply"}, name : BaseNames,
              suffix : {<<"@">> \o n \o <<"x">> : n \in ScaleNumerals}]

InitApply ==
    /\ NoManager
    /\ args \in ApplyArgs
    /\ result = <<>>

\* one call of apply on the default descriptor
Apply ==
    /\ result = <<>>
    /\ args.fn = "apply"
    /\ result' = <<apply(DefaultDescriptor, args.name \o args.suffix)>>
    /\ UNCHANGED <<managerVars, loaderVars, files, disk_model, icons_json, fg,
                   remaining, historyVars, drop_panic, skipped, args>>

NextApply == Apply

SpecApply == InitApply /\ [][NextApply]_vars

\* an '@' followed by nothing, by a character that is no digit, and by two
\* characters the first of which is no digit
OtherSuffixes == { <<"@">>, <<"@", "x">>, <<"@", "x", "2">> }

\* apply on any directory name: those of ApplyArgs and those with another
\* suffix
InitApplyAny ==
    /\ NoManager
    /\ args \in ApplyArgs \cup [fn : {"apply"}, name : BaseNames,
                                 suffix : OtherSuffixes]
    /\ result = <<>>

NextApplyAny == Apply

SpecApplyAny == InitApplyAny /\ [][NextApplyAny]_vars


(***************************************************************************)
(* The icon finder: IconDescriptor::apply on the descriptor a directory    *)
(* higher in the path has left.                                            *)
(***************************************************************************)
\* descriptors that CachedDir::find passes down to a directory
Descriptors ==
    [size : {NoSize, Scalable, Fixed(PreferredIconSize)}, scale : {1, 2},
     theme : {NoTheme, <<<<"h", "i", "c", "o", "l", "o", "r">>>>}]

ApplyOnArgs ==
    [fn : {"apply_on"}, self : Descriptors, name : BaseNames,
     suffix : {<<>>} \cup {<<"@">> \o n \o <<"x">> : n \in ScaleNumerals}]

InitApplyOn ==
    /\ NoManager
    /\ args \in ApplyOnArgs
    /\ result = <<>>

\* one call of apply on args.self, as in desc.apply(&self.name)
ApplyOn ==
    /\ result = <<>>
    /\ args.fn = "apply_on"
    /\ result' = <<apply(args.self, args.name \o args.suffix)>>
    /\ UNCHANGED <<managerVars, loaderVars, files, disk_model, icons_json, fg,
                   remaining, historyVars, drop_panic, skipped, args>>

NextApplyOn == ApplyOn

SpecApplyOn == InitApplyOn /\ [][NextApplyOn]_vars


(***************************************************************************)
(* The icon finder: IconFinder::find over a tree of cached directories.    *)
(* A CachedDir is [name, files, dirs] with its entries in read_dir order,  *)
(* a file is [stem, ext] (ext <<>> when the name has no extension), a path *)
(* is the sequence of its components.                                      *)
(***************************************************************************)
\* the file name of a file: stem, '.', extension
FileName(file) ==
    IF file.ext = <<>> THEN file.stem ELSE file.stem \o <<".">> \o file.ext

\* str::contains
Contains(s, sub) ==
    \E i \in 0..(Len(s) - Len(sub)) : SubSeq(s, i + 1, i + Len(sub)) = sub

\* mutant of Counts: every candidate counts as found
CountsAny(file, icon_name) == TRUE

\* we only count exact matches: if file_name == icon_name { found += 1; }
Counts(file, icon_name) == file.stem = icon_name

\* the loop of CachedDir::find over self.files()
RECURSIVE find_files(_, _, _, _, _, _)
find_files(path, fs, icon_name, out, found, desc) ==
    IF fs = <<>> THEN [panic |-> FALSE, found |-> found, out |-> out]
    ELSE LET file == Head(fs)
         IN  IF ~Contains(FileName(file), icon_name)
             THEN find_files(path, Tail(fs), icon_name, out, found, desc)
             ELSE IF file.ext = <<"x", "p", "m">>
                  THEN find_files(path, Tail(fs), icon_name, out, found, desc)
                  ELSE find_files(path, Tail(fs), icon_name,
                                  Append(out, [file_name  |-> file.stem,
                                               path       |-> Append(path, FileName(file)),
                                               descriptor |-> desc]),
                                  IF Counts(file, icon_name) THEN found + 1
                                  ELSE found,
                                  desc)

\* CachedDir::find, and its loop over self.dirs() when deep; each `let` is
\* a value computed once (bound by \in) before the code after it runs
RECURSIVE CachedDir_find(_, _, _, _, _, _)
RECURSIVE find_dirs(_, _, _, _, _, _)
CachedDir_find(self, path, icon_name, out, deep, desc) ==
    CHOOSE after \in
      { IF applied_desc.panic
        THEN [panic |-> TRUE, found |-> 0, out |-> out]
        ELSE LET d == [size |-> applied_desc.size, scale |-> applied_desc.scale,
                       theme |-> applied_desc.theme]
             IN  CHOOSE res \in
                   { IF sub.panic THEN sub
                     ELSE find_files(path, self.files, icon_name, sub.out,
                                     sub.found, d)
                     : sub \in { IF deep
                                 THEN find_dirs(self.dirs, path, icon_name,
                                                out, 0, d)
                                 ELSE [panic |-> FALSE, found |-> 0,
                                       out |-> out] } } : TRUE
        : applied_desc \in {apply(desc, self.name)} } : TRUE

find_dirs(dirs, path, icon_name, out, found, desc) ==
    IF dirs = <<>> THEN [panic |-> FALSE, found |-> found, out |-> out]
    ELSE CHOOSE after \in
           { IF r.panic THEN r
             ELSE find_dirs(Tail(dirs), path, icon_name, r.out,
                            found + r.found, desc)
             : r \in {CachedDir_find(Head(dirs),
                                     Append(path, Head(dirs).name),
                                     icon_name, out, TRUE, desc)} } : TRUE

\* CachedDir::join: the first directory entry of that name
HasDir(dir, name) == \E i \in 1..Len(dir.dirs) : dir.dirs[i].name = name
join(dir, name) ==
    dir.dirs[CHOOSE i \in 1..Len(dir.dirs) :
                 /\ dir.dirs[i].name = name
                 /\ \A j \in 1..(i - 1) : dir.dirs[j].name # name]

Hicolor == <<"h", "i", "c", "o", "l", "o", "r">>
DefaultTheme == <<"d", "e", "f", "a", "u", "l", "t">>

\* IconFinder::start_find for one root and one step
start_find(dir, icon_name, out, step) ==
    LET path == <<dir.name>>
        themed(name) ==
            IF HasDir(dir, name)
            THEN CachedDir_find(join(dir, name), Append(path, name), icon_name,
                                out, TRUE,
                                [DefaultDescriptor EXCEPT !.theme = <<name>>])
            ELSE [panic |-> FALSE, found |-> 0, out |-> out]
    IN  CASE step = 0 -> themed(Hicolor)
          [] step = 1 -> themed(DefaultTheme)
          [] step = 2 -> CachedDir_find(dir, path, icon_name, out, FALSE,
                                        DefaultDescriptor)
          [] step = 3 -> CachedDir_find(dir, path, icon_name, out, TRUE,
                                        DefaultDescriptor)
          [] OTHER -> [panic |-> FALSE, found |-> 0, out |-> out]

\* the loop `for dir in &mut self.dirs` of one step
RECURSIVE find_step(_, _, _, _, _)
find_step(dirs, icon_name, out, step, found_any) ==
    IF dirs = <<>> THEN [panic |-> FALSE, found_any |-> found_any, out |-> out]
    ELSE CHOOSE after \in
           { IF r.panic THEN [panic |-> TRUE, found_any |-> found_any,
                              out |-> r.out]
             ELSE find_step(Tail(dirs), icon_name, r.out, step,
                            found_any \/ r.found > 0)
             : r \in {start_find(Head(dirs), icon_name, out, step)} } : TRUE

\* the loop `for i in 0..4` of IconFinder::find: the candidates collected
RECURSIVE collect(_, _, _, _)
collect(dirs, icon_name, out, i) ==
    IF i >= 4 THEN [panic |-> FALSE, out |-> out]
    ELSE CHOOSE after \in
           { IF r.panic THEN [panic |-> TRUE, out |-> r.out]
             ELSE IF r.found_any THEN [panic |-> FALSE, out |-> r.out]
             ELSE collect(dirs, icon_name, r.out, i + 1)
             : r \in {find_step(dirs, icon_name, out, i, FALSE)} } : TRUE

\* mutant of retain_exact: nothing is filtered out
retain_all(out, icon_name) == out

\* out.retain(|location| location.file_name == icon_name)
retain_exact(out, icon_name) ==
    SelectSeq(out, LAMBDA location : location.file_name = icon_name)

\* IconFinder::find
find(dirs, icon_name) ==
    CHOOSE after \in
      { LET any_exact_matches ==
                \E i \in 1..Len(c.out) : c.out[i].file_name = icon_name
        IN  IF c.panic THEN [panic |-> TRUE, out |-> <<>>]
            ELSE IF any_exact_matches
                 THEN [panic |-> FALSE, out |-> retain_exact(c.out, icon_name)]
                 ELSE [panic |-> FALSE, out |-> c.out]
        : c \in {collect(dirs, icon_name, <<>>, 0)} } : TRUE

\* the files of the model's directories
Png == <<"p", "n", "g">>
FileLists ==
    { <<>>,
      <<[stem |-> <<"a">>, ext |-> Png]>>,
      <<[stem |-> <<"a", "b">>, ext |-> Png]>>,
      <<[stem |-> <<"a", "b">>, ext |-> <<"s", "v", "g">>],
        [stem |-> <<"a">>, ext |-> Png]>>,
      <<[stem |-> <<"a">>, ext |-> <<"x", "p", "m">>],
        [stem |-> <<"b">>, ext |-> <<"a">>]>> }

\* the icon theme base paths: icons with the themes hicolor (one size
\* directory) and default and files of its own, and pixmaps with files only
Roots(sized, themed, top, pixmaps) ==
    << [name  |-> <<"i", "c", "o", "n", "s">>,
        files |-> top,
        dirs  |-> << [name  |-> Hicolor, files |-> <<>>,
                      dirs  |-> << [name  |-> <<"3", "2", "x", "3", "2">>,
                                    files |-> sized, dirs |-> <<>>] >>],
                     [name  |-> DefaultTheme, files |-> themed,
                      dirs  |-> <<>>] >>],
       [name  |-> <<"p", "i", "x", "m", "a", "p", "s">>,
        files |-> pixmaps, dirs |-> <<>>] >>

IconNames == { <<"a">>, <<"a", "b">> }

FindArgs ==
    { [fn |-> "find", dirs |-> Roots(sized, themed, top, pixmaps),
       icon_name |-> icon_name] :
         sized \in FileLists, themed \in FileLists, top \in FileLists,
         pixmaps \in FileLists, icon_name \in IconNames }

InitFind ==
    /\ NoManager
    /\ args \in FindArgs
    /\ result = <<>>

\* one call of IconFinder::find
Find ==
    /\ result = <<>>
    /\ args.fn = "find"
    /\ result' = <<find(args.dirs, args.icon_name)>>
    /\ UNCHANGED <<managerVars, loaderVars, files, disk_model, icons_json, fg,
                   remaining, historyVars, drop_panic, skipped, args>>

NextFind == Find

SpecFind == InitFind /\ [][NextFind]_vars


(***************************************************************************)
(* The worker's choice among the candidates of find (loader.rs:57-73).     *)
(***************************************************************************)
\* the characters of the model's names, in the order of their bytes
Ascii ==
    <<".", "0", "1", "2", "3", "4", "5", "6", "7", "8", "9", "@",
      "a", "b", "c", "d", "e", "f", "g", "h", "i", "j", "k", "l", "m",
      "n", "o", "p", "q", "r", "s", "t", "u", "v", "w", "x", "y", "z">>

Code(c) == CHOOSE i \in 1..Len(Ascii) : Ascii[i] = c

\* Ord of String: byte by byte, a proper prefix first
RECURSIVE StrLess(_, _)
StrLess(a, b) ==
    IF b = <<>> THEN FALSE
    ELSE IF a = <<>> THEN TRUE
    ELSE IF Head(a) # Head(b) THEN Code(Head(a)) < Code(Head(b))
    ELSE StrLess(Tail(a), Tail(b))

\* Ord of PathBuf: component by component, a proper prefix first
RECURSIVE PathLess(_, _)
PathLess(p, q) ==
    IF q = <<>> THEN FALSE
    ELSE IF p = <<>> THEN TRUE
    ELSE IF Head(p) # Head(q) THEN StrLess(Head(p), Head(q))
    ELSE PathLess(Tail(p), Tail(q))

\* Ord of Option<String>: None first, then by the string
ThemeLess(a, b) ==
    IF b = NoTheme THEN FALSE
    ELSE IF a = NoTheme THEN TRUE
    ELSE StrLess(a[1], b[1])

\* the order of the keys of the three sort_by_cached_key calls
KeyLess(key, a, b, overflow_checks) ==
    CASE key = "path"  -> PathLess(a.path, b.path)
      [] key = "theme" -> ThemeLess(a.descriptor.theme, b.descriptor.theme)
      [] OTHER -> OrdLess(ord(a.descriptor, PreferredIconSize, overflow_checks),
                          ord(b.descriptor, PreferredIconSize, overflow_checks))

\* x put into a sorted list behind every element that is not above it
insert_sorted(sorted, x, key, overflow_checks) ==
    LET k == Cardinality({i \in 1..Len(sorted) :
                            ~KeyLess(key, x, sorted[i], overflow_checks)})
    IN  SubSeq(sorted, 1, k) \o <<x>> \o SubSeq(sorted, k + 1, Len(sorted))

\* slice::sort_by_cached_key: ascending, equal elements in their old order
RECURSIVE sort_by_cached_key(_, _, _)
sort_by_cached_key(v, key, overflow_checks) ==
    IF Len(v) <= 1 THEN v
    ELSE CHOOSE out \in
           { insert_sorted(sorted, v[Len(v)], key, overflow_checks)
             : sorted \in {sort_by_cached_key(SubSeq(v, 1, Len(v) - 1), key,
                                              overflow_checks)} } : TRUE

\* mutant of reverse: the list stays as it is
reverse_Not(v) == v

\* slice::reverse
reverse(v) == [i \in 1..Len(v) |-> v[Len(v) + 1 - i]]

\* the key of the third sort panics if ord does
OrdPanics(v, overflow_checks) ==
    \E i \in 1..Len(v) :
        ord(v[i].descriptor, PreferredIconSize, overflow_checks).panic

\* the four steps and vec.first(): Some(path) is <<path>>, None is <<>>
select(vec, overflow_checks) ==
    IF OrdPanics(vec, overflow_checks) THEN [panic |-> TRUE, path |-> <<>>]
    ELSE CHOOSE chosen \in
           { [panic |-> FALSE,
              path  |-> IF v = <<>> THEN <<>> ELSE <<v[1].path>>]
             : v \in { reverse(sort_by_cached_key(
                          reverse(sort_by_cached_key(
                            sort_by_cached_key(vec, "path", overflow_checks),
                            "theme", overflow_checks)),
                          "ord", overflow_checks)) } } : TRUE

\* locations as find returns them: themes h, d and p, sizes around 32
Candidates ==
    { [path |-> <<<<"h">>, <<"3", "2">>, <<"a", ".", "p", "n", "g">>>>,
       file_name |-> <<"a">>,
       descriptor |-> [size |-> Fixed(32), scale |-> 1, theme |-> <<<<"h">>>>]],
      [path |-> <<<<"h">>, <<"3", "2">>, <<"b", ".", "p", "n", "g">>>>,
       file_name |-> <<"b">>,
       descriptor |-> [size |-> Fixed(32), scale |-> 1, theme |-> <<<<"h">>>>]],
      [path |-> <<<<"d">>, <<"3", "2">>, <<"a", ".", "p", "n", "g">>>>,
       file_name |-> <<"a">>,
       descriptor |-> [size |-> Fixed(32), scale |-> 1, theme |-> <<<<"d">>>>]],
      [path |-> <<<<"h">>, <<"s">>, <<"a", ".", "s", "v", "g">>>>,
       file_name |-> <<"a">>,
       descriptor |-> [size |-> Scalable, scale |-> 1, theme |-> <<<<"h">>>>]],
      [path |-> <<<<"p">>, <<"a", ".", "p", "n", "g">>>>,
       file_name |-> <<"a">>,
       descriptor |-> [size |-> NoSize, scale |-> 1, theme |-> <<<<"p">>>>]],
      [path |-> <<<<"h">>, <<"3", "2", "@", "2">>, <<"a", ".", "p", "n", "g">>>>,
       file_name |-> <<"a">>,
       descriptor |-> [size |-> Fixed(32), scale |-> 2, theme |-> <<<<"h">>>>]],
      [path |-> <<<<"h">>, <<"1", "6">>, <<"a", ".", "p", "n", "g">>>>,
       file_name |-> <<"a">>,
       descriptor |-> [size |-> Fixed(16), scale |-> 1, theme |-> <<<<"h">>>>]],
      [path |-> <<<<"d">>, <<"3", "3">>, <<"a", ".", "p", "n", "g">>>>,
       file_name |-> <<"a">>,
       descriptor |-> [size |-> Fixed(33), scale |-> 1, theme |-> <<<<"d">>>>]] }

SelectArgs ==
    [fn : {"select"},
     vec : UNION {[1..n -> Candidates] : n \in 0..MaxCandidates},
     overflow_checks : BOOLEAN]

InitSelect ==
    /\ NoManager
    /\ args \in SelectArgs
    /\ result = <<>>

\* the worker sorts what find returned and takes the first
Select ==
    /\ result = <<>>
    /\ args.fn = "select"
    /\ result' = <<select(args.vec, args.overflow_checks)>>
    /\ UNCHANGED <<managerVars, loaderVars, files, disk_model, icons_json, fg,
                   remaining, historyVars, drop_panic, skipped, args>>

NextSelect == Select

SpecSelect == InitSelect /\ [][NextSelect]_vars


(***************************************************************************)
(* The worker's handling of one request (loader.rs:54-86): from the source *)
(* string to the response.                                                 *)
(***************************************************************************)
\* mutant of is_absolute: every source is taken for a name to search
is_absolute_Never(source) == FALSE

\* Path::is_absolute: the path begins at the root
is_absolute(source) == source # <<>> /\ Head(source) = "/"

\* files as render_icon meets them
MissingFile ==
    [ext |-> "png", readable |-> FALSE, valid |-> FALSE,
     width |-> 0, height |-> 0, entries |-> <<>>]
CorruptFile ==
    [ext |-> "png", readable |-> TRUE, valid |-> FALSE,
     width |-> 0, height |-> 0, entries |-> <<>>]
ImageFile ==
    [ext |-> "png", readable |-> TRUE, valid |-> TRUE,
     width |-> 16, height |-> 16, entries |-> <<>>]

\* PathBuf::from(&source): the source string as a path
source_path(source) == <<source>>

\* the match on requester.recv() for Ok(request): icon_path, load_icon and
\* the response; literal is the file at the source path (if any), found the
\* file behind every path the finder returns
handle_request(source, dirs, literal, found, overflow_checks) ==
    CHOOSE response \in
      { IF vec.panic
        THEN [panic |-> TRUE, searched |-> TRUE, icon_path |-> <<>>,
              kind |-> "none"]
        ELSE CHOOSE r \in
          { IF first.panic
            THEN [panic |-> TRUE, searched |-> TRUE, icon_path |-> <<>>,
                  kind |-> "none"]
            ELSE LET searched  == ~is_absolute(source)
                     icon_path == IF searched /\ first.path # <<>>
                                  THEN first.path[1]
                                  ELSE source_path(source)
                     file      == IF icon_path = source_path(source)
                                  THEN literal ELSE found
                     status    == render_icon(file).status
                 IN  [panic     |-> status = "panic",
                      searched  |-> searched,
                      icon_path |-> icon_path,
                      kind      |-> CASE status = "ok" -> "Success"
                                      [] status = "err" -> "Fail"
                                      [] OTHER -> "none"]
            : first \in {select(vec.out, overflow_checks)} } : TRUE
        : vec \in { IF is_absolute(source)
                    THEN [panic |-> FALSE, out |-> <<>>]
                    ELSE find(dirs, source) } } : TRUE

\* source strings: an absolute path, names with candidates, a name without
RequestSources == { <<"/", "a">>, <<"a">>, <<"a", "b">>, <<"z">> }

ResolveArgs ==
    { [fn |-> "handle_request", source |-> source,
       dirs |-> Roots(sized, <<>>, <<>>, pixmaps),
       literal |-> literal, found |-> found,
       overflow_checks |-> overflow_checks] :
         source \in RequestSources, sized \in FileLists,
         pixmaps \in FileLists,
         literal \in {MissingFile, CorruptFile, ImageFile},
         found \in {CorruptFile, ImageFile}, overflow_checks \in BOOLEAN }

InitResolve ==
    /\ NoManager
    /\ args \in ResolveArgs
    /\ result = <<>>

\* the worker handles one request
HandleRequest ==
    /\ result = <<>>
    /\ args.fn = "handle_request"
    /\ result' = <<handle_request(args.source, args.dirs, args.literal,
                                  args.found, args.overflow_checks)>>
    /\ UNCHANGED <<managerVars, loaderVars, files, disk_model, icons_json, fg,
                   remaining, historyVars, drop_panic, skipped, args>>

NextResolve == HandleRequest

SpecResolve == InitResolve /\ [][NextResolve]_vars


(***************************************************************************)
(* IconLoader::render_ico_icon over the entries of a container.            *)
(***************************************************************************)
\* entries of a container: width and height (1..=256) and whether the entry
\* decodes
IcoEntries ==
    { [width |-> 16, height |-> 16, decodes |-> TRUE],
      [width |-> 48, height |-> 48, decodes |-> TRUE],
      [width |-> 32, height |-> 32, decodes |-> TRUE],
      [width |-> 32, height |-> 32, decodes |-> FALSE],
      [width |-> 24, height |-> 40, decodes |-> TRUE],
      [width |-> 40, height |-> 24, decodes |-> TRUE],
      [width |-> 256, height |-> 256, decodes |-> TRUE] }

IcoArgs ==
    [fn : {"render_ico_icon"},
     entries : UNION {[1..n -> IcoEntries] : n \in 0..MaxEntries}]

InitIco ==
    /\ NoManager
    /\ args \in IcoArgs
    /\ result = <<>>

\* one call of render_ico_icon; closest_entry_i is kept with what it returns
RenderIco ==
    /\ result = <<>>
    /\ args.fn = "render_ico_icon"
    /\ result' = <<[closest_entry_i |-> closest_entry(args.entries, 0, 0, I64Max),
                    rgba |-> render_ico_icon(args.entries)]>>
    /\ UNCHANGED <<managerVars, loaderVars, files, disk_model, icons_json, fg,
                   remaining, historyVars, drop_panic, skipped, args>>

NextIco == RenderIco

SpecIco == InitIco /\ [][NextIco]_vars


(***************************************************************************)
(* Properties                                                              *)
(***************************************************************************)
\* the applications with a request that has no response yet: queued, in the
\* request channel or at the worker
Pending ==
    {queue[i].location.app_id : i \in 1..Len(queue)}
        \cup {chan[i].location.app_id : i \in 1..Len(chan)}
        \cup {cur[i].location.app_id : i \in 1..Len(cur)}

\* the request numbers given out so far
Enqueued == 1..to_load

\* how often the response of request r has been applied
Applied(r) == IF r \in DOMAIN applied THEN applied[r] ELSE 0

\* C1: a prepare_icon call for an application with the icon source of the
\* previous prepare_icon call for it allocates no export id, leaves the model
\* and the local queue as they are, starts no loader and does not count in
\* to_load, whether or not the first request has been answered.
C1_PrepareTwiceEnqueuesOnce ==
    [][\A app \in Apps, icon \in Sources :
         (prepare_icon(app, icon, Sources, MaxLoad) /\ called[app] = icon)
            => UNCHANGED <<model, queue, chan, to_load, loader, spawned>>]_vars

\* a second call has been skipped while the only request, of the first call,
\* is still in the local queue (nothing was persisted before this run)
C1_Witness ==
    /\ skipped
    /\ loaded = EmptyModel
    /\ to_load = 1
    /\ to_load_finished = 0
    /\ Len(queue) = 1

\* C2: after finish() has returned, an application of the loaded model that
\* no prepare_icon call marked seen has no entry, and the file of the export
\* id it had is gone.
C2_UnseenPurgedAfterFinish ==
    fg = "finished" =>
        \A a \in DOMAIN loaded \ seen_icons :
            /\ a \notin DOMAIN model
            /\ a \notin DOMAIN disk_model
            /\ loaded[a].export_id # NoneId => loaded[a].export_id \notin files

\* finish() has returned after a run with renders in which the application
\* persisted with 0.png was not seen
C2_Witness ==
    /\ fg = "finished"
    /\ to_load_finished > 0
    /\ \E a \in DOMAIN loaded \ seen_icons :
         /\ loaded[a].export_id = 0
         /\ a \notin DOMAIN model
         /\ 0 \notin files

\* C3: when finish() has returned, the cancelled requests are exactly the
\* enqueued requests that were never sent into the request channel, the
\* response of each was applied once, and its entry has no export id unless a
\* later request of the application was rendered; with N requests and no tick
\* all N are cancelled.
C3_FinishCancelsExactlyTheQueue ==
    fg = "finished" =>
        /\ cancelled = Enqueued \ sent
        /\ cancelled \cap received = {}
        /\ \A r \in cancelled : Applied(r) = 1
        /\ sent = {} => (to_load_finished = to_load /\
                         \A a \in seen_icons \ DOMAIN loaded :
                            model[a].export_id = NoneId)

\* three requests were enqueued, no tick sent any, finish() has returned
C3_Witness ==
    /\ fg = "finished"
    /\ to_load = 3
    /\ sent = {}
    /\ cancelled = {1, 2, 3}
    /\ to_load_finished = 3

\* C4: when finish() has returned, the response of every enqueued request has
\* been applied exactly once.
C4_EveryRequestAnsweredOnce ==
    fg = "finished" =>
        /\ \A r \in Enqueued : Applied(r) = 1
        /\ DOMAIN applied = Enqueued
        /\ to_load_finished = to_load
        /\ Outstanding = {}

\* finish() has returned; one request was cancelled, one was answered by the
\* worker after a tick, one more was sent
C4_Witness ==
    /\ fg = "finished"
    /\ to_load = 3
    /\ Cardinality(cancelled) = 1
    /\ Cardinality(sent) = 2
    /\ \A r \in Enqueued : Applied(r) = 1


\* C5: read_icon gives no path for an application whose request is still
\* queued, in the request channel or being rendered, also when the file of
\* its export id exists.
C5_NoPathWhilePending ==
    \A a \in Pending : read_icon(model, files, a) = NoneId

\* C6: no two entries carry the same export id, and no two requests without
\* an applied response carry the same export id.
C6_ExportIdsUnique ==
    /\ \A a, b \in DOMAIN model :
         (a # b /\ model[a].export_id # NoneId)
            => model[a].export_id # model[b].export_id
    /\ \A h, k \in Outstanding :
         h.rid # k.rid => h.export_id # k.export_id

\* C7: no IconLocation is dropped with freed = false.
C7_NoUnfreedDrop == ~drop_panic

\* how often request r occurs in a sequence of requests or responses
Occurrences(s, r) == Cardinality({i \in 1..Len(s) : s[i].location.rid = r})

\* request r is at exactly one place: the local queue, the request channel,
\* the worker, the response channel, or its response has been applied
AtOnePlace(r) ==
    Occurrences(queue, r) + Occurrences(chan, r) + Occurrences(cur, r)
        + Occurrences(resp, r) + Applied(r) = 1

\* C8: the request channel never holds more than 16 requests; a tick that
\* finds it full leaves the local queue (with the rejected request back on
\* top, where the next tick takes it first) and the channel as they were; no
\* request is lost or doubled on its way.
C8_BackpressureLosesNothing ==
    /\ [](Len(chan) <= RequestChannelCapacity)
    /\ [](\A r \in Enqueued : AtOnePlace(r))
    /\ [][(TickSend /\ ChannelFull(chan))
             => (queue' = queue /\ chan' = chan /\ fg' = "tick_recv")]_vars
    /\ [][(TickSend /\ ~ChannelFull(chan))
             => (chan' = Append(chan, Top(queue)) /\ queue' = Pop(queue))]_vars

\* a tick has just found the channel full with requests left in the queue
C8_Witness ==
    /\ fg = "tick_recv"
    /\ Len(chan) = RequestChannelCapacity
    /\ Len(queue) >= 2
    /\ sent # {}

\* C9: after finish() has returned every file written during the run is
\* named by exactly one entry, and every export id of an entry has its file.
C9_FilesMatchEntries ==
    fg = "finished" =>
        /\ \A id \in written \cap files :
             Cardinality({a \in DOMAIN model : model[a].export_id = id}) = 1
        /\ \A a \in DOMAIN model :
             model[a].export_id # NoneId => model[a].export_id \in files

\* C10: the worker answers every request it receives exactly once, does not
\* end by a panic, and exits only with its request channel closed and empty.
C10_WorkerAnswersEveryRequest ==
    /\ worker # "panicked"
    /\ worker = "exited" => (sender = "dropped" /\ chan = <<>>)
    /\ \A r \in received :
         IF Occurrences(cur, r) = 1
         THEN r \notin DOMAIN responded
         ELSE r \in DOMAIN responded /\ responded[r] = 1

\* C11: a manager creates at most one worker thread over its whole life: none
\* before the first prepare_icon call that enqueues a request, and none again
\* once finish() has joined the first.
C11_OneWorkerPerManager ==
    /\ spawned <= 1
    /\ to_load = 0 => spawned = 0

\* C12: AppIconManager::new returns a manager whatever icons.json is, and the
\* manager starts with an empty model unless the file holds a valid model.
C12_NewFallsBackToEmptyModel ==
    [][new => /\ fg' = "idle"
              /\ icons_json # "valid" => model' = EmptyModel]_vars

\* ord has been applied to Fixed(s) with s different from the target
OrdOfInexactFixed ==
    /\ result # <<>>
    /\ args.fn = "ord"
    /\ args.self.size.kind = "Fixed"
    /\ args.self.size.px # args.target

\* C15: for a target t, ord of Fixed(s) with s different from t is strictly
\* below ord of Fixed(t) with the same scale.
C15_ExactFixedOutranksOtherFixed ==
    OrdOfInexactFixed =>
        LET exact == ord([args.self EXCEPT !.size = Fixed(args.target)],
                         args.target, args.overflow_checks)
        IN  /\ ~result[1].panic
            /\ ~exact.panic
            /\ OrdLess(result[1], exact)

\* C16: for a target t, ord of Fixed(s) with s different from t is strictly
\* below ord of Scalable with the same scale, also for s = t + 1.
C16_ScalableOutranksInexactFixed ==
    OrdOfInexactFixed =>
        LET scalable == ord([args.self EXCEPT !.size = Scalable],
                            args.target, args.overflow_checks)
        IN  /\ ~result[1].panic
            /\ ~scalable.panic
            /\ OrdLess(result[1], scalable)

\* the number a numeral of the model stands for
NumeralValue(n) == from_str(n, U16Max).value

\* C14: apply on the default descriptor gives size Fixed(max(W, H)) for a
\* name WxH, size Scalable for the name scalable, and for name@Nx the scale N
\* with the size and the theme that apply gives for name alone.
C14_ApplyParsesDirectoryNames ==
    (result # <<>> /\ args.fn = "apply") =>
        /\ (args.suffix = <<>> /\ args.name \in WxHNames) =>
              \E w, h \in Numerals :
                 /\ args.name = w \o <<"x">> \o h
                 /\ ~result[1].panic
                 /\ result[1].size = Fixed(Max(NumeralValue(w), NumeralValue(h)))
        /\ (args.suffix = <<>>
              /\ args.name = <<"s", "c", "a", "l", "a", "b", "l", "e">>) =>
              (~result[1].panic /\ result[1].size = Scalable)
        /\ args.suffix # <<>> =>
              LET alone == apply(DefaultDescriptor, args.name)
                  n     == SubSeq(args.suffix, 2, Len(args.suffix) - 1)
              IN  /\ ~result[1].panic
                  /\ result[1].scale = NumeralValue(n)
                  /\ result[1].size = alone.size
                  /\ result[1].theme = alone.theme

\* the candidates IconFinder::find collected for args before its filter
Collected == collect(args.dirs, args.icon_name, <<>>, 0).out

\* the candidates of a list whose stem is the icon name, in their order
ExactOf(out) ==
    SelectSeq(out, LAMBDA location : location.file_name = args.icon_name)

\* C13: if a collected candidate has the stem icon_name, find returns exactly
\* the collected candidates with that stem; otherwise it returns all the
\* collected candidates.
C13_FindKeepsExactMatchesOnly ==
    (result # <<>> /\ args.fn = "find") =>
        /\ ~result[1].panic
        /\ IF ExactOf(Collected) # <<>>
           THEN /\ result[1].out = ExactOf(Collected)
                /\ \A i \in 1..Len(result[1].out) :
                     result[1].out[i].file_name = args.icon_name
           ELSE result[1].out = Collected

\* find has returned the exact matches of a collection that also held a
\* candidate with another stem
C13_Witness ==
    /\ result # <<>>
    /\ args.fn = "find"
    /\ ExactOf(Collected) # <<>>
    /\ Len(ExactOf(Collected)) < Len(Collected)
    /\ result[1].out = ExactOf(Collected)

\* C17: requests reach the worker and have their responses applied in the
\* order of their prepare_icon calls: a request is received, or answered, only
\* when every request enqueued before it has been.
C17_SubmissionOrderKept ==
    \A r1, r2 \in Enqueued :
        r1 < r2 =>
            /\ r2 \in received => r1 \in received
            /\ Applied(r2) > 0 => Applied(r1) > 0

\* C18: prepare_icon and tick never wait for the worker: a tick that has
\* begun can take its next step, and a call can begin, whatever the request
\* channel, the response channel and the worker are at.
C18_ForegroundNeverWaits ==
    /\ fg = "tick_send" => ENABLED TickSend
    /\ fg = "tick_recv" => ENABLED TickRecv
    /\ TickEntered => ENABLED (TickSend \/ TickRecv)
    /\ (Callable /\ to_load < MaxLoadBP /\ (sent = {} \/ ChannelFull(chan)))
          => ENABLED PrepareIconBP

\* a tick is in its send loop with a request to send while the request
\* channel is full, the response channel is empty and the worker is rendering
C18_Witness ==
    /\ fg = "tick_send"
    /\ queue # <<>>
    /\ ChannelFull(chan)
    /\ resp = <<>>
    /\ worker = "busy"

\* the requests the running tick call has sent so far
SentInCall == TickBatch - Remaining

\* C19: a tick call sends at most 32 requests, one per pass of its loop; it
\* leaves the loop at the first request the full channel rejects, with that
\* request back in the queue; it returns only through the receiving loop,
\* which takes and applies every response that is in the response channel.
C19_TickBatchAndDrain ==
    /\ [](fg \in {"tick_send", "tick_recv"} =>
             (SentInCall >= 0 /\ SentInCall <= TickBatch))
    /\ [](fg = "tick_send" => SentInCall < TickBatch)
    /\ [][(TickSend /\ ~ChannelFull(chan)) =>
             /\ SentInCall < TickBatch
             /\ SentInCall' = SentInCall + 1
             /\ sent' = sent \cup {Top(queue).location.rid}
             /\ Len(chan') = Len(chan) + 1
             /\ SentInCall' = TickBatch => fg' = "tick_recv"]_vars
    /\ [][(TickSend /\ ChannelFull(chan)) =>
             /\ fg' = "tick_recv"
             /\ queue' = queue
             /\ chan' = chan
             /\ SentInCall' = SentInCall]_vars
    /\ [][fg = "tick_send" => fg' \in {"tick_send", "tick_recv"}]_vars
    /\ [][(TickRecv /\ fg' = "idle") =>
             /\ resp' = <<>>
             /\ to_load_finished' = to_load_finished + Len(resp)
             /\ \A i \in 1..Len(resp) :
                  /\ resp[i].location.rid \in DOMAIN applied'
                  /\ resp[i].location.rid \notin DOMAIN applied]_vars

\* a tick has left its send loop after 32 requests, with requests still in
\* the local queue and room in the request channel
C19_Witness ==
    /\ fg = "tick_recv"
    /\ SentInCall = TickBatch
    /\ queue # <<>>
    /\ ~ChannelFull(chan)

\* C20: a tick call returns true exactly when it sent a request to the
\* worker or applied a response.
C20_TickReportsWork ==
    [][(TickRecv /\ fg' = "idle") =>
          (tick_returns <=> (SentInCall > 0 \/ resp # <<>>))]_vars

\* the manager's part of a step that applies the single response r: the
\* call returns, and the entry of r's application is as the kind of r says
AppliesOne(r) ==
    LET a == r.location.app_id
    IN  /\ fg' \in {"idle", "finished"}
        /\ a \in DOMAIN model
        /\ a \in DOMAIN model'
        /\ r.kind = "Success" => model'[a].export_id = r.location.export_id
        /\ r.kind = "Fail" =>
              model'[a] = [source_location |-> model[a].source_location,
                           export_id |-> NoneId]
        /\ \A b \in DOMAIN model \ {a} :
              b \in DOMAIN model' /\ model'[b] = model[b]

\* C21: a tick that applies one response leaves the entry of the response's
\* application with the export id of the handle if the response is a Success,
\* and with no export id and its source_location if it is a Fail; the entries
\* of the other applications stay as they are.
C21_ResponseSetsOnlyItsEntry ==
    [][(TickRecv /\ Len(resp) = 1) => AppliesOne(resp[1])]_vars

\* C22: prepare_icon without an icon source changes nothing; with the source
\* of the entry it only marks the application seen; otherwise it marks it
\* seen, records {source, Some(id)} with an id that no entry carried, counts
\* in to_load and appends one request with that id to the local queue.
C22_PrepareIconQueuesOneRequest ==
    [][\A app \in Apps, icon \in Sources \cup {NoIcon} :
         prepare_icon(app, icon, Sources, MaxLoad) =>
           IF icon = NoIcon
           THEN UNCHANGED <<managerVars, loaderVars, files, disk_model>>
           ELSE IF SameSource(model, app, icon)
           THEN /\ seen_icons' = seen_icons \cup {app}
                /\ UNCHANGED <<model, to_load, to_load_finished, loaderVars,
                               files, disk_model>>
           ELSE /\ seen_icons' = seen_icons \cup {app}
                /\ to_load' = to_load + 1
                /\ Len(queue') = Len(queue) + 1
                /\ Pop(queue') = queue
                /\ Top(queue').id = app
                /\ Top(queue').icon = icon
                /\ Top(queue').location.app_id = app
                /\ Top(queue').location.export_id \notin UsedIds(model)
                /\ model' = Insert(model, app,
                                   [source_location |-> icon,
                                    export_id |-> Top(queue').location.export_id])
                /\ loader' = "Some"
                /\ UNCHANGED <<to_load_finished, files, disk_model>>]_vars

\* two requests of one application are queued, the second for a changed
\* source, and the entry carries the export id of the second
C22_Witness ==
    /\ Len(queue) = 2
    /\ queue[1].id = queue[2].id
    /\ queue[1].icon # queue[2].icon
    /\ queue[1].location.export_id # queue[2].location.export_id
    /\ model[queue[2].id] = [source_location |-> queue[2].icon,
                             export_id |-> queue[2].location.export_id]

\* C23: the export id prepare_icon hands out is the smallest non-negative
\* integer that no entry of the model carries, and so is what find_free_id
\* returns in every state.
C23_FreeIdIsLowestGap ==
    /\ [](/\ find_free_id(model) >= 0
          /\ find_free_id(model) \notin UsedIds(model)
          /\ \A j \in 0..(find_free_id(model) - 1) : j \in UsedIds(model))
    /\ [][\A app \in Apps, icon \in Sources :
            (prepare_icon(app, icon, Sources, MaxLoad) /\ to_load' = to_load + 1)
               => LET id == Top(queue').location.export_id
                  IN  /\ id >= 0
                      /\ id \notin UsedIds(model)
                      /\ \A j \in 0..(id - 1) : j \in UsedIds(model)]_vars

\* the render of a1's request with id 0 failed and its response was applied
\* while a2 held id 1; the request queued after that carries id 0 again
C23_Witness ==
    /\ "a1" \in DOMAIN model
    /\ "a2" \in DOMAIN model
    /\ Applied(1) = 1
    /\ to_load = 3
    /\ Len(queue) = 1
    /\ queue[1].location.rid = 3
    /\ queue[1].location.export_id = 0
    /\ 1 \in UsedIds(model)

\* C24: when a tick applies a Fail response, and when finish() removes the
\* entry of an unseen application, the file <id>.png of the export id that
\* the entry gives up is deleted if it exists, and the call goes on.
C24_FreedSlotLosesItsFile ==
    /\ [][(TickRecv /\ Len(resp) = 1 /\ resp[1].kind = "Fail") =>
            /\ fg' = "idle"
            /\ resp[1].location.export_id \notin files']_vars
    /\ [][FinishNoLoader =>
            /\ fg' = "finished"
            /\ \A a \in DOMAIN model \ DOMAIN model' :
                  model[a].export_id \notin files']_vars

\* C25: finish() writes icons.json in one place only, when the worker has
\* exited (or never existed) and the response or cancellation of every
\* enqueued request has been applied; what it writes is the model, which has
\* entries of seen applications only and no handle outstanding.
C25_SaveComesLast ==
    /\ [][(disk_model' # disk_model \/ icons_json' # icons_json)
             => (FinishNoLoader \/ FinishJoin)]_vars
    /\ [][((FinishNoLoader \/ FinishJoin) /\ fg' = "finished") =>
            /\ worker' \in {"exited", "none"}
            /\ \A r \in Enqueued : Applied(r)' = 1
            /\ resp' = <<>>
            /\ queue' = <<>>
            /\ Outstanding' = {}
            /\ icons_json' = "valid"
            /\ disk_model' = model'
            /\ DOMAIN disk_model' \subseteq seen_icons']_vars

\* finish() has written the model after a run that loaded an entry of an
\* application it did not see, cancelled a request and had another rendered
C25_Witness ==
    /\ fg = "finished"
    /\ icons_json = "valid"
    /\ disk_model = model
    /\ model # EmptyModel
    /\ ~(DOMAIN loaded \subseteq seen_icons)
    /\ cancelled # {}
    /\ received # {}

\* the candidates that stage i (0 hicolor, 1 default, 2 shallow, 3 deep) of
\* find pushes for args when it runs on an empty list
Stage(i) == find_step(args.dirs, args.icon_name, <<>>, i, FALSE).out

\* the first stage that pushes a candidate, if there is one
FirstStage ==
    {i \in 0..3 : Stage(i) # <<>> /\ \A j \in 0..(i - 1) : Stage(j) = <<>>}

\* C26: the candidates find collects are those of the first of the stages
\* hicolor, default, shallow, deep that yields any candidate, exact or not,
\* in any root, and of no later stage.
C26_FirstMatchingStageOnly ==
    (result # <<>> /\ args.fn = "find") =>
        /\ ~result[1].panic
        /\ IF FirstStage = {} THEN Collected = <<>>
           ELSE \A i \in FirstStage : Collected = Stage(i)

\* stage i pushes a candidate whose stem is the icon name
HasExact(i) ==
    \E n \in 1..Len(Stage(i)) : Stage(i)[n].file_name = args.icon_name

\* the last stage find runs: the first with an exact match, else deep
LastStage ==
    IF \E i \in 0..3 : HasExact(i)
    THEN CHOOSE i \in 0..3 : HasExact(i) /\ \A j \in 0..(i - 1) : ~HasExact(j)
    ELSE 3

\* the candidates of the stages 0..k, in the order of the stages
RECURSIVE StagesUpTo(_)
StagesUpTo(k) == IF k < 0 THEN <<>> ELSE StagesUpTo(k - 1) \o Stage(k)

\* C26 (amended): find runs the stages hicolor, default, shallow, deep in
\* that order and runs no further stage once a stage has pushed an exact
\* match in any root; it collects the candidates of every stage it ran, and
\* after a stage with an exact match it returns the exact matches of that
\* stage only.
C26_StopsAtFirstExactStage ==
    (result # <<>> /\ args.fn = "find") =>
        /\ ~result[1].panic
        /\ Collected = StagesUpTo(LastStage)
        /\ (\E i \in 0..3 : HasExact(i)) =>
              result[1].out = ExactOf(Stage(LastStage))

\* find has returned the exact matches of a later stage after the hicolor
\* stage had pushed a candidate that only contains the icon name
C26_Witness ==
    /\ result # <<>>
    /\ args.fn = "find"
    /\ Stage(0) # <<>>
    /\ ~HasExact(0)
    /\ LastStage \in 1..2
    /\ HasExact(LastStage)
    /\ result[1].out = ExactOf(Stage(LastStage))
    /\ Len(Collected) > Len(result[1].out)

\* the extension of a file name: what follows its last '.', if that is not
\* its first character
Extension(name) ==
    LET dots == {i \in 2..Len(name) : name[i] = "."}
    IN  IF dots = {} THEN <<>>
        ELSE SubSeq(name, 1 + CHOOSE i \in dots : \A j \in dots : j <= i,
                    Len(name))

\* C27: every candidate find returns has a stem that contains icon_name and
\* an extension other than xpm.
C27_CandidatesMatchByStem ==
    (result # <<>> /\ args.fn = "find") =>
        \A i \in 1..Len(result[1].out) :
            LET location == result[1].out[i]
            IN  /\ Contains(location.file_name, args.icon_name)
                /\ Extension(location.path[Len(location.path)])
                      # <<"x", "p", "m">>

\* C28: no two locations find returns have the same path.
C28_NoLocationTwice ==
    (result # <<>> /\ args.fn = "find") =>
        \A i, j \in 1..Len(result[1].out) :
            i # j => result[1].out[i].path # result[1].out[j].path

\* C29: apply on a descriptor whose size or scale is set returns a
\* descriptor with that size and that scale, whatever the directory name is;
\* its theme is the one it had, or a theme filled in if it had none.
C29_ApplyKeepsSetSizeAndScale ==
    (/\ result # <<>>
     /\ args.fn = "apply_on"
     /\ (args.self.size # NoSize \/ args.self.scale # 1)) =>
        /\ ~result[1].panic
        /\ result[1].size = args.self.size
        /\ result[1].scale = args.self.scale
        /\ result[1].theme # NoTheme
        /\ args.self.theme # NoTheme => result[1].theme = args.self.theme

\* the score of a candidate for the preferred size
Score(c) == ord(c.descriptor, PreferredIconSize, args.overflow_checks)

\* candidate c comes before candidate d: by the higher score, then by the
\* lower theme name, then by the lower path
Before(c, d) ==
    \/ OrdLess(Score(d), Score(c))
    \/ /\ Score(c) = Score(d)
       /\ \/ ThemeLess(c.descriptor.theme, d.descriptor.theme)
          \/ /\ c.descriptor.theme = d.descriptor.theme
             /\ PathLess(c.path, d.path)

\* the candidates of args.vec
Listed == {args.vec[i] : i \in 1..Len(args.vec)}

\* C30: what the worker picks from a non-empty list is the path of a
\* candidate with the highest ord(32) score, among those of one with the
\* lowest theme name, among those the lowest path; it picks the same for
\* every order of the list.
C30_SelectsBestWhateverTheOrder ==
    (result # <<>> /\ args.fn = "select") =>
        /\ ~result[1].panic
        /\ args.vec = <<>> => result[1].path = <<>>
        /\ args.vec # <<>> =>
              \E c \in Listed :
                 /\ result[1].path = <<c.path>>
                 /\ \A d \in Listed : ~Before(d, c)
        /\ \A perm \in Permutations(1..Len(args.vec)) :
              select([i \in 1..Len(args.vec) |-> args.vec[perm[i]]],
                     args.overflow_checks) = result[1]

\* the worker has picked from three candidates with the same score, two of
\* them of the same theme, given with the best one last
C30_Witness ==
    /\ result # <<>>
    /\ args.fn = "select"
    /\ Len(args.vec) = 3
    /\ \A c, d \in Listed : Score(c) = Score(d)
    /\ \E c, d \in Listed :
          c # d /\ c.descriptor.theme = d.descriptor.theme
    /\ \E c, d \in Listed : c.descriptor.theme # d.descriptor.theme
    /\ result[1].path = <<args.vec[3].path>>
    /\ args.vec[3] # args.vec[1]
    /\ args.vec[3] # args.vec[2]

\* what the finder returns for the source of args
Found == find(args.dirs, args.source).out

\* C31: the worker renders an absolute source as it is, without a search;
\* for any other source it searches and renders the candidate it selects,
\* or the source as a literal path if there is no candidate; a literal path
\* with no file behind it gives a Fail response.
C31_SourceResolution ==
    (result # <<>> /\ args.fn = "handle_request") =>
        /\ ~result[1].panic
        /\ Head(args.source) = "/" =>
              /\ ~result[1].searched
              /\ result[1].icon_path = <<args.source>>
        /\ Head(args.source) # "/" =>
              /\ result[1].searched
              /\ IF Found # <<>>
                 THEN /\ <<result[1].icon_path>>
                           = select(Found, args.overflow_checks).path
                      /\ \E i \in 1..Len(Found) :
                            Found[i].path = result[1].icon_path
                      /\ result[1].kind = IF args.found = ImageFile
                                          THEN "Success" ELSE "Fail"
                 ELSE result[1].icon_path = <<args.source>>
        /\ (result[1].icon_path = <<args.source>>) =>
              result[1].kind = IF args.literal = ImageFile
                               THEN "Success" ELSE "Fail"

\* a name the finder has no candidate for was rendered as a literal path
\* that does not exist, and the response is a Fail
C31_Witness ==
    /\ result # <<>>
    /\ args.fn = "handle_request"
    /\ Head(args.source) # "/"
    /\ Found = <<>>
    /\ args.literal = MissingFile
    /\ result[1].searched
    /\ result[1].icon_path = <<args.source>>
    /\ result[1].kind = "Fail"

\* |32 - max(width, height)| of the entry at place j (from 1) of args
Distance(j) ==
    Abs(IcoTargetSize - Max(args.entries[j].width, args.entries[j].height))

C33_SecondFinishChangesNothing ==
    [][FinishAgain =>
         /\ fg' = "finished_again"
         /\ ~drop_panic'
         /\ spawned' = spawned
         /\ worker' = worker
         /\ applied' = applied
         /\ UNCHANGED <<model, to_load, to_load_finished, files, disk_model,
                        icons_json>>]_vars

\* the second call has returned on a manager whose first finish() joined a
\* worker, cancelled a request, applied a response and purged an entry
C33_Witness ==
    /\ fg = "finished_again"
    /\ spawned = 1
    /\ cancelled # {}
    /\ \E r \in DOMAIN applied : r \notin cancelled
    /\ DOMAIN model # DOMAIN loaded
    /\ files # {}

\* C34: in any interleaving of prepare_icon, tick, clear_icons and finish,
\* the responses a tick or finish() applies find the entry of their
\* application, with the export id of the handle for a Success: the unwrap
\* and the assert_eq in free_location do not fail.
C34_FreeLocationNeverFails ==
    [][/\ TickRecv =>
            ~handle_responses(model, to_load_finished, applied, resp).panic
       /\ FinishJoin =>
            ~handle_responses(model, to_load_finished, applied,
                              FinishOutput(queue, resp)).panic]_vars

\* the entry of every application with a Fail among the responses rs, in the
\* model after, is the entry of the model before without an export id
FailedKept(rs, before, after) ==
    \A i \in 1..Len(rs) :
        rs[i].kind = "Fail" =>
            LET a == rs[i].location.app_id
            IN  /\ a \in DOMAIN after
                /\ after[a] = [source_location |-> before[a].source_location,
                               export_id |-> NoneId]

\* C35: a Fail response, of a failed render or of a request that finish()
\* cancelled, leaves the entry with its source_location and no export id, and
\* finish() writes it to icons.json like that; prepare_icon with the source
\* of an entry without export id, left by a Fail of this run or loaded from
\* icons.json, enqueues nothing, and read_icon returns None after it.
C35_FailedRenderNotRetried ==
    /\ [][(TickRecv /\ fg' # "aborted") => FailedKept(resp, model, model')]_vars
    /\ [][(FinishJoin /\ fg' # "aborted") =>
             /\ FailedKept(FinishOutput(queue, resp), model, model')
             /\ FailedKept(FinishOutput(queue, resp), model, disk_model')]_vars
    /\ [][\A app \in Apps, icon \in Sources :
             (/\ prepare_icon(app, icon, Sources, MaxLoad)
              /\ SameSource(model, app, icon)
              /\ model[app].export_id = NoneId)
                => /\ UNCHANGED <<model, queue, chan, to_load, loader, spawned>>
                   /\ read_icon(model', files', app) = NoneId]_vars

\* the only request of this run was answered with a Fail, the response was
\* applied, and a prepare_icon with the same source has just been skipped
C35_Witness ==
    /\ skipped
    /\ loaded = EmptyModel
    /\ to_load = 1
    /\ to_load_finished = 1
    /\ Applied(1) = 1
    /\ \E app \in Apps :
          /\ called[app] \in Sources
          /\ app \in DOMAIN model
          /\ model[app] = [source_location |-> called[app],
                           export_id |-> NoneId]

\* the numbers of the requests found in a sequence of requests or responses
Numbers(s) == {s[i].location.rid : i \in 1..Len(s)}

\* the requests that exist: waiting, at the worker, answered, or applied
EverEnqueued ==
    Numbers(queue) \cup Numbers(chan) \cup Numbers(cur) \cup Numbers(resp)
        \cup DOMAIN applied

\* C36: to_load_finished never exceeds to_load; to_load is the number of
\* requests enqueued so far, growing by one exactly when a request is put on
\* the local queue; and when finish() has returned, the two are equal.
C36_CountersAgree ==
    /\ [](to_load_finished <= to_load)
    /\ [](Cardinality(EverEnqueued) = to_load)
    /\ [][(Len(queue') = Len(queue) + 1) <=> (to_load' = to_load + 1)]_vars
    /\ [](fg = "finished" => to_load_finished = to_load)

\* finish() has returned twice on one manager: the first call cancelled the
\* request of the first loader, the second one that of the second loader
C36_Witness ==
    /\ fg = "finished"
    /\ spawned = 2
    /\ to_load = 2
    /\ to_load_finished = 2
    /\ cancelled = {1, 2}

\* C37: without finish(), when the caller goes on calling tick and the
\* worker is scheduled, every request that is in the local queue is sent to
\* the worker and its response is applied, after which the queue is empty and
\* to_load_finished equals to_load.
C37_EveryRequestIsApplied ==
    \A r \in 1..MaxLoadLive :
        (r \in Numbers(queue)) ~>
            (r \in sent /\ Applied(r) = 1 /\
             (to_load_finished = to_load => queue = <<>>))

\* C38: ord stays within u16 for every size and every target: neither
\* subtraction goes below zero, so the score of Fixed(size) is the difference
\* in the integers, and the score of an unknown size is strictly below the
\* score of every Fixed and of the Scalable size.
C38_OrdStaysInU16 ==
    (result # <<>> /\ args.fn = "ord") =>
        LET size    == args.self.size
            unknown == ord([args.self EXCEPT !.size = NoSize], args.target,
                           args.overflow_checks)
        IN  /\ ~result[1].panic
            /\ (size.kind = "Fixed" /\ size.px > args.target) =>
                  result[1].size_score = U16Max - (size.px - args.target)
            /\ (size.kind = "Fixed" /\ size.px < args.target) =>
                  result[1].size_score =
                      (U16Max \div 2) - (args.target - size.px)
            /\ size # NoSize => unknown.size_score < result[1].size_score

\* C39: apply returns a descriptor for every directory name, whatever
\* follows an '@' in it: it does not panic.
C39_ApplyIsTotal ==
    (result # <<>> /\ args.fn = "apply") =>
        /\ ~result[1].panic
        /\ result[1].size \in {NoSize, Scalable} \cup {Fixed(s) : s \in 0..U16Max}
        /\ result[1].theme # NoTheme

====
